---- MODULE Spec2Model ----
(***************************************************************************)
(* A model of the operator lowering rules of onnx_tf/backends/backend_v1.py *)
(* (class TensorflowBackend) and of the version scan of onnx_tf/gen_opset.py.*)
(*                                                                         *)
(* A lowering rule is a class method handle_<op>(node, input_dict).  The    *)
(* model keeps the node and the symbol table as state, runs one rule per    *)
(* action and records what the rule returned, which target-engine           *)
(* primitives it called (with their arguments), which warnings it emitted   *)
(* and what it left in node.attrs.                                          *)
(*                                                                         *)
(* node.attrs is a Python dict: here a function whose DOMAIN is the set of  *)
(* attribute names that are present.  Python lists are sequences; a Python  *)
(* index i is position i + 1.                                               *)
(***************************************************************************)
EXTENDS Integers, Sequences, FiniteSets, TLC

VARIABLES
  node,          \* the Node being lowered: [op_type, inputs, attrs]
  input_dict,    \* the symbol table: tensor name -> lowered tensor handle
  support_cuda,  \* what cls.supports_device("CUDA") answers
  ncalls,        \* how many times the node has been lowered so far
  outcome,       \* what the last call of the rule did
  node0,         \* the node as the host graph constructed it
  input_dict0,   \* the symbol table as it was before the first call
  \* gen_opset.main
  gen_pc,                 \* where main is: "idle", "tables", "import", "scan", "write", "done"
  version,                \* the local variable version
  backend,                \* the op names op for which hasattr(backend, 'handle_' + op)
  frontend,               \* frontend.ONNX_TO_HANDLER of the imported frontend
  schema_idx,             \* how many schemas the inner for loop has visited
  backend_opset_dict,
  frontend_opset_dict,
  frontend_tf_opset_dict,
  scanned                 \* per version scanned so far, the modules it imported

lower_vars == <<node, input_dict, support_cuda, ncalls, outcome, node0, input_dict0>>

gen_vars == <<gen_pc, version, backend, frontend, schema_idx, backend_opset_dict,
              frontend_opset_dict, frontend_tf_opset_dict, scanned>>

vars == <<lower_vars, gen_vars>>

----------------------------------------------------------------------------
(* Bounds of the model. *)

\* largest extent of a tensor axis handed to handle_slice
MaxDim == 4
\* largest magnitude of a starts/ends entry
MaxIdx == 5
\* how many times the same node is lowered
MaxCalls == 2
\* largest spatial extent of a pooled tensor
MaxSpatial == 3
\* largest kernel extent
MaxKernel == 3
\* largest stride
MaxStride == 2
\* largest group attribute of a convolution
MaxGroup == 2
\* most input (and output) channels per group
MaxPerGroup == 2
\* spatial extent of a convolved tensor
ConvSpatial == 3
\* highest version for which a backend or frontend module can exist
MaxVersion == 2

\* the largest element of a tensor whose elements are followed
MaxVal == 1

----------------------------------------------------------------------------
(* Python helpers. *)

Min(a, b) == IF a < b THEN a ELSE b

\* range(n) as a list
range(n) == [k \in 1..n |-> k - 1]

\* [v] * n
Repeat(v, n) == [k \in 1..n |-> v]

\* lst[i] for a Python index i >= 0
At(lst, i) == lst[i + 1]

\* lst with lst[i] = v done
SetAt(lst, i, v) == [lst EXCEPT ![i + 1] = v]

\* lst[k:]
From(lst, k) == IF k >= Len(lst) THEN <<>> ELSE SubSeq(lst, k + 1, Len(lst))

Elems(lst) == {lst[k] : k \in 1..Len(lst)}

\* dict.get(key, default)
attrs_get(attrs, key, default) ==
  IF key \in DOMAIN attrs THEN attrs[key] ELSE default

\* the dict with no key
NoAttrs == [k \in {} |-> 0]

----------------------------------------------------------------------------
(* Lowered tensor handles.  A handle carries its static shape, the order of *)
(* its axes (lay, one label per axis) and, along its channel axis, what     *)
(* each channel holds (chan).                                               *)

\* the channel-first axis labels of a tensor of this rank: "NC" + "DHW"[-(rank-2):]
StorageLabels(rank) ==
  IF rank = 1 THEN <<"N">>
  ELSE IF rank = 2 THEN <<"N", "C">>
  ELSE IF rank = 3 THEN <<"N", "C", "W">>
  ELSE IF rank = 4 THEN <<"N", "C", "H", "W">>
  ELSE <<"N", "C", "D", "H", "W">>

\* a tensor of the host graph, in storage (channel-first) layout
Placeholder(shape) ==
  [shape |-> shape,
   lay   |-> StorageLabels(Len(shape)),
   chan  |-> IF Len(shape) >= 2 THEN [k \in 1..shape[2] |-> k] ELSE <<>>]

----------------------------------------------------------------------------
(* What a call of a rule leaves behind. *)

\* the rule returned `outputs`
Ok(outputs, calls, warns, attrs) ==
  [status |-> "ok", outputs |-> outputs, calls |-> calls, warns |-> warns,
   attrs |-> attrs]

\* the rule raised `kind`: nothing is returned
Raise(kind, calls, warns, attrs) ==
  [status |-> kind, outputs |-> <<>>, calls |-> calls, warns |-> warns,
   attrs |-> attrs]

NotRun ==
  [status |-> "none", outputs |-> <<>>, calls |-> <<>>, warns |-> <<>>]

----------------------------------------------------------------------------
(* handle_slice *)

\* tf.slice(x, begin, size): size -1 takes the rest of the axis; any other
\* begin/size outside the axis is rejected
tf_slice_ok(shape, begin, size) ==
  \A k \in 1..Len(shape) :
    /\ 0 <= begin[k] /\ begin[k] <= shape[k]
    /\ size[k] >= -1
    /\ (size[k] >= 0 => begin[k] + size[k] <= shape[k])

tf_slice_shape(shape, begin, size) ==
  [k \in 1..Len(shape) |-> IF size[k] = -1 THEN shape[k] - begin[k] ELSE size[k]]

\* a Python index into a list of length n, or -1 when it raises IndexError
PyIndex(a, n) == IF 0 <= a /\ a < n THEN a ELSE IF -n <= a /\ a < 0 THEN a + n ELSE -1

\* the mutant: the end attribute is clamped but a negative end is not made
\* relative to the axis length
slice_end_noneg(L, e) == Min(L, e)

\* lines 791-792: the effective end on an axis of length L
slice_end(L, e) == Min(L, IF e < 0 THEN L + e ELSE e)

\* the mutant: the start attribute is taken unclamped
slice_start_unclamped(L, s) == s

\* line 793: the effective start on an axis of length L
slice_start(L, s) == Min(L, s)

\* the for loop of lines 790-795, from iteration i on.  starts and ends are
\* the attribute lists themselves: the loop assigns into them.
RECURSIVE slice_loop(_, _, _, _, _, _, _, _)
slice_loop(i, slice_len, starts, has_ends, ends, axes, full_begin, full_sizes) ==
  LET st == [err |-> "", starts |-> starts, ends |-> ends,
             full_begin |-> full_begin, full_sizes |-> full_sizes]
  IN
  IF i = slice_len THEN st
  ELSE IF ~has_ends THEN [st EXCEPT !.err = "TypeError"]
  ELSE IF i >= Len(ends) \/ i >= Len(axes) THEN [st EXCEPT !.err = "IndexError"]
  ELSE IF PyIndex(At(axes, i), Len(full_sizes)) = -1
    THEN [st EXCEPT !.err = "IndexError"]
  ELSE
    LET a  == PyIndex(At(axes, i), Len(full_sizes))
        L  == At(full_sizes, a)
        e  == slice_end(L, At(ends, i))
        s  == slice_start(L, At(starts, i))
    IN slice_loop(i + 1, slice_len, SetAt(starts, i, s), has_ends,
                  SetAt(ends, i, e), axes,
                  SetAt(full_begin, a, s), SetAt(full_sizes, a, e - s))

handle_slice(n, d) ==
  LET x          == d[n.inputs[1]]
      full_sizes == x.shape
      full_begin == Repeat(0, Len(full_sizes))
  IN
  IF "starts" \notin DOMAIN n.attrs
    THEN Raise("TypeError", <<>>, <<>>, n.attrs)     \* len(None)
  ELSE
    LET starts    == n.attrs.starts
        has_ends  == "ends" \in DOMAIN n.attrs
        ends      == attrs_get(n.attrs, "ends", <<>>)
        slice_len == Len(starts)
        axes      == attrs_get(n.attrs, "axes", range(slice_len))
        r         == slice_loop(0, slice_len, starts, has_ends, ends, axes,
                                full_begin, full_sizes)
        attrs1    == [k \in DOMAIN n.attrs |->
                        IF k = "starts" THEN r.starts
                        ELSE IF k = "ends" THEN r.ends
                        ELSE n.attrs[k]]
        call      == [prim |-> "tf.slice", begin |-> r.full_begin,
                      size |-> r.full_sizes]
    IN
    IF r.err # "" THEN Raise(r.err, <<>>, <<>>, attrs1)
    ELSE IF ~tf_slice_ok(x.shape, r.full_begin, r.full_sizes)
      THEN Raise("InvalidArgumentError", <<call>>, <<>>, attrs1)
    ELSE Ok(<<[shape |-> tf_slice_shape(x.shape, r.full_begin, r.full_sizes),
               lay |-> x.lay, chan |-> x.chan]>>,
            <<call>>, <<>>, attrs1)

----------------------------------------------------------------------------
(* The layout resolver of the backend base class. *)

\* get_data_format(x_rank, support_cuda): the storage format is channel-first;
\* the compute format is channel-first with acceleration, channel-last without
get_data_format(x_rank, cuda) ==
  LET storage == StorageLabels(x_rank)
  IN [storage |-> storage,
      compute |-> IF cuda THEN storage
                  ELSE <<"N">> \o From(storage, 2) \o <<"C">>]

\* _from.find(c): the Python index of label c in a format, -1 when absent
Find(fmt, c) ==
  IF \E k \in 1..Len(fmt) : fmt[k] = c
    THEN (CHOOSE k \in 1..Len(fmt) : fmt[k] = c) - 1
    ELSE -1

\* get_perm_from_formats(_from, _to)
get_perm_from_formats(from, to) == [k \in 1..Len(to) |-> Find(from, to[k])]

\* tf.transpose(t, perm): axis k of the result is axis perm[k] of t
tf_transpose(t, perm) ==
  [shape |-> [k \in 1..Len(perm) |-> At(t.shape, perm[k])],
   lay   |-> [k \in 1..Len(perm) |-> At(t.lay, perm[k])],
   chan  |-> t.chan]

\* the record of a tf.transpose call: the layout of its operand and the perm
TransposeCall(t, perm) == [prim |-> "tf.transpose", lay |-> t.lay, perm |-> perm]

----------------------------------------------------------------------------
(* Pooling: handle_average_pool, handle_max_pool, _pool, the global pools   *)
(* and _compatibility_pool.                                                 *)

\* int(np.ceil(float(a) / float(b))) for b > 0
CeilDiv(a, b) == -((-a) \div b)

\* the positions (1-based) of the spatial axes a data format names
SpatialPos(fmt) == {k \in 1..Len(fmt) : fmt[k] \notin {"N", "C"}}

\* handle_global_average_pool / handle_global_max_pool: reduce over the axes
\* from 2 on, keep_dims=True
global_pool_rule(n, d, reduce) ==
  LET x == d[n.inputs[1]]
      rank == Len(x.shape)
      dim_window == From(range(rank), 2)
  IN Ok(<<[shape |-> [k \in 1..rank |-> IF k <= 2 THEN x.shape[k] ELSE 1],
           lay |-> x.lay, chan |-> x.chan]>>,
        <<[prim |-> reduce, axis |-> dim_window, keep_dims |-> TRUE]>>,
        <<>>, n.attrs)

handle_global_average_pool(n, d) == global_pool_rule(n, d, "tf.reduce_mean")

handle_global_max_pool(n, d) == global_pool_rule(n, d, "tf.reduce_max")

\* _get_output_shape (lines 78-92)
_get_output_shape(auto_pad, input_spatial_shape, kernel_spatial_shape, strides_spatial) ==
  [i \in 1..Len(input_spatial_shape) |->
     IF auto_pad \in {"SAME_UPPER", "SAME_LOWER"}
       THEN CeilDiv(input_spatial_shape[i], strides_spatial[i])
     ELSE IF auto_pad \in {"VALID", ""}
       THEN CeilDiv(input_spatial_shape[i] - (kernel_spatial_shape[i] - 1),
                    strides_spatial[i])
     ELSE 0]

\* _get_pad_shape (lines 67-76)
_get_pad_shape(auto_pad, input_spatial_shape, kernel_spatial_shape, strides_spatial, output_spatial_shape) ==
  [i \in 1..Len(input_spatial_shape) |->
     IF auto_pad \in {"SAME_UPPER", "SAME_LOWER"}
       THEN (output_spatial_shape[i] - 1) * strides_spatial[i]
            + kernel_spatial_shape[i] - input_spatial_shape[i]
     ELSE 0]

\* lines 146-148: the per-side pads assigned into the pads list
RECURSIVE same_lower_pads(_, _, _, _)
same_lower_pads(i, spatial_size, pads, pad_shape) ==
  IF i = spatial_size THEN pads
  ELSE
    LET endp  == At(pad_shape, i) \div 2
        p1    == SetAt(pads, i + spatial_size, endp)
        p2    == SetAt(p1, i, At(pad_shape, i) - endp)
    IN same_lower_pads(i + 1, spatial_size, p2, pad_shape)

\* int(num / den) for den > 0: the true quotient, truncated towards zero
py_int(num, den) == IF num >= 0 THEN num \div den ELSE -((-num) \div den)

\* itertools.product(*ranges): the index tuples, one component per range
RECURSIVE product(_)
product(ranges) ==
  IF ranges = <<>> THEN {<<>>}
  ELSE {<<i>> \o r : i \in Head(ranges), r \in product(Tail(ranges))}

\* a variant: the window of output position j starts at j, the stride ignored
window_range_unstrided(stride, j, kernel) == j..(j + kernel - 1)

\* lines 114-115: range(stride * j, stride * j + kernel)
window_range(stride, j, kernel) == (stride * j)..(stride * j + kernel - 1)

\* py_pool (lines 94-130), run by tf.py_func when the graph is run.  counts is
\* the number of positions iterated per spatial axis; y maps every index of
\* the result to the reduction written there and the input elements (the
\* elements of the window that are not padding) it reduces, np.zeros where
\* nothing is written; at is the call that raised, if one did.
py_pool(x_shape, kernel_shape, strides_shape, pads, out_shape, pad_shape, pooling_type) ==
  LET spatial_size == Len(x_shape) - 2
      sp           == 1..spatial_size
      padded_shape == [i \in sp |-> x_shape[i + 2] + pads[i] + pads[i + spatial_size]]
      counts       == [i \in sp |->
                         py_int(x_shape[i + 2] + pad_shape[i] - kernel_shape[i]
                                + strides_shape[i], strides_shape[i])]
      positions    == product(<<0..(x_shape[1] - 1), 0..(x_shape[2] - 1)>>
                              \o [i \in sp |-> 0..(counts[i] - 1)])
      window(shape) == product([i \in sp |->
                         window_range(strides_shape[i], shape[i + 2],
                                      kernel_shape[i])])
      inside(w)    == \A i \in sp : w[i] < padded_shape[i]
      real(w)      == \A i \in sp : pads[i] <= w[i] /\ w[i] < pads[i] + x_shape[i + 2]
      vals(shape)  == {<<shape[1], shape[2]>> \o [i \in sp |-> w[i] - pads[i]] :
                         w \in {v \in window(shape) : real(v)}}
      f            == IF pooling_type = "AVG" THEN "np.average" ELSE "np.max"
      failed(kind, at) == [status |-> kind, at |-> at, counts |-> counts,
                           y |-> <<>>]
  IN
  IF \E i \in 1..(2 * spatial_size) : pads[i] < 0
    THEN failed("ValueError", "np.pad")
  ELSE IF \E i \in sp : out_shape[i] < 0
    THEN failed("ValueError", "np.zeros")
  ELSE IF \E shape \in positions : \E w \in window(shape) : ~inside(w)
    THEN failed("IndexError", "window[i]")
  ELSE IF pooling_type \notin {"AVG", "MAX"}
    THEN failed("NotImplementedError", "raise")
  ELSE IF pooling_type = "MAX" /\ \E shape \in positions : vals(shape) = {}
    THEN failed("ValueError", "np.max")     \* of a window of padding only
  ELSE IF \E shape \in positions : \E i \in sp : shape[i + 2] >= out_shape[i]
    THEN failed("IndexError", "y[shape]")
  ELSE
    [status |-> "ok", at |-> "", counts |-> counts,
     y |-> [shape \in product(<<0..(x_shape[1] - 1), 0..(x_shape[2] - 1)>>
                              \o [i \in sp |-> 0..(out_shape[i] - 1)]) |->
              IF shape \in positions THEN [f |-> f, of |-> vals(shape)]
              ELSE [f |-> "np.zeros", of |-> {}]]]

\* _compatibility_pool (lines 132-160); py_pool itself runs when the graph is
\* run, the rule only builds the tf.py_func node around it
_compatibility_pool(n, d, pooling_type) ==
  LET x            == d[n.inputs[1]]
      x_shape      == x.shape
      spatial_size == Len(From(x_shape, 2))
      entered      == [prim |-> "cls._compatibility_pool",
                       pooling_type |-> pooling_type]
  IN
  IF "kernel_shape" \notin DOMAIN n.attrs
    THEN Raise("KeyError", <<entered>>, <<>>, n.attrs)
  ELSE
    LET kernel_shape  == n.attrs.kernel_shape
        strides_shape == attrs_get(n.attrs, "strides", Repeat(1, spatial_size))
        pads          == attrs_get(n.attrs, "pads", Repeat(0, spatial_size * 2))
        auto_pad      == attrs_get(n.attrs, "auto_pad", "")
    IN
    IF auto_pad \notin {"SAME_LOWER", ""}
      THEN Raise("UnboundLocalError", <<entered>>, <<>>, n.attrs)   \* out_shape
    ELSE IF Len(kernel_shape) < spatial_size \/ Len(strides_shape) < spatial_size
            \/ Len(pads) < 2 * spatial_size
      THEN Raise("IndexError", <<entered>>, <<>>, n.attrs)
    ELSE
      LET lower_     == auto_pad = "SAME_LOWER"
          out_lower == _get_output_shape(auto_pad, From(x_shape, 2),
                                         kernel_shape, strides_shape)
          pad_lower == _get_pad_shape(auto_pad, From(x_shape, 2), kernel_shape,
                                      strides_shape, out_lower)
          pads1     == IF lower_
                         THEN same_lower_pads(0, spatial_size, pads, pad_lower)
                         ELSE pads
          pad_expl  == [i \in 1..spatial_size |->
                          pads[i] + pads[i + spatial_size]]
          out_expl  == _get_output_shape(auto_pad,
                         [i \in 1..spatial_size |-> x_shape[i + 2] + pad_expl[i]],
                         kernel_shape, strides_shape)
          pad_shape == IF lower_ THEN pad_lower ELSE pad_expl
          out_shape == IF lower_ THEN out_lower ELSE out_expl
          \* the pads list is node.attrs["pads"] itself when the node has one
          attrs1    == [k \in DOMAIN n.attrs |->
                          IF k = "pads" THEN pads1 ELSE n.attrs[k]]
          py_func   == [prim |-> "tf.py_func(py_pool)",
                        kernel_shape |-> kernel_shape,
                        strides_shape |-> strides_shape, pads |-> pads1,
                        out_shape |-> out_shape, pad_shape |-> pad_shape,
                        pooling_type |-> pooling_type]
      IN
      \* line 159: set_shape rejects a negative dimension
      IF \E i \in 1..spatial_size : out_shape[i] < 0
        THEN Raise("ValueError", <<entered, py_func>>, <<>>, attrs1)
      ELSE Ok(<<[shape |-> SubSeq(x_shape, 1, 2) \o out_shape,
                 lay |-> x.lay, chan |-> x.chan,
                 eval |-> py_pool(x_shape, kernel_shape, strides_shape, pads1,
                                  out_shape, pad_shape, pooling_type)]>>,
              <<entered, py_func>>, <<>>, attrs1)

\* tf.nn.pool(x, window_shape, pooling_type, padding, strides, data_format):
\* the shape of the result, the spatial axes being where data_format says
tf_nn_pool_shape(x, kernel_shape, pad, strides, fmt) ==
  [p \in 1..Len(x.shape) |->
     IF p \in SpatialPos(fmt)
       THEN LET k == Cardinality({q \in SpatialPos(fmt) : q < p}) + 1
            IN IF pad = "SAME" THEN CeilDiv(x.shape[p], strides[k])
               ELSE CeilDiv(x.shape[p] - kernel_shape[k] + 1, strides[k])
       ELSE x.shape[p]]

\* pool_func(x, kernel_shape, padding=pad, strides=strides, data_format=fmt)
pool_func(x, kernel_shape, pad, strides, fmt, pooling_type) ==
  LET shape == tf_nn_pool_shape(x, kernel_shape, pad, strides, fmt)
      call  == [prim |-> "tf.nn.pool", pooling_type |-> pooling_type,
                padding |-> pad, lay |-> x.lay, fmt |-> fmt]
  IN [ok   |-> Len(x.shape) >= 3 /\ \A p \in 1..Len(shape) : shape[p] >= 1,
      out  |-> [shape |-> shape, lay |-> x.lay, chan |-> x.chan],
      call |-> call]

\* the mutant: explicit pads send the node to the portable fallback even when
\* auto_pad asks for SAME_UPPER or VALID
pool_pad_mode_pads_first(attrs) ==
  IF "pads" \in DOMAIN attrs THEN "None"
  ELSE IF "auto_pad" \in DOMAIN attrs /\ attrs.auto_pad = "SAME_UPPER" THEN "SAME"
  ELSE IF "auto_pad" \in DOMAIN attrs /\ attrs.auto_pad = "VALID" THEN "VALID"
  ELSE "None"

\* lines 173-182: the native padding mode, "None" for pad = None
pool_pad_mode(attrs) ==
  IF "auto_pad" \in DOMAIN attrs
    THEN IF attrs.auto_pad = "SAME_UPPER" THEN "SAME"
         ELSE IF attrs.auto_pad = "VALID" THEN "VALID"
         ELSE "None"
    ELSE "None"

\* _pool (lines 162-207)
_pool(n, d, cuda, pooling_type) ==
  LET x      == d[n.inputs[1]]
      x_rank == Len(x.shape)
      fmts   == get_data_format(x_rank, cuda)
  IN
  IF "kernel_shape" \notin DOMAIN n.attrs
    THEN Raise("KeyError", <<>>, <<>>, n.attrs)
  ELSE
    LET kernel_shape == n.attrs.kernel_shape
        strides      == attrs_get(n.attrs, "strides", Repeat(1, x_rank - 2))
        pad          == pool_pad_mode(n.attrs)
    IN
    IF pad = "None" THEN _compatibility_pool(n, d, pooling_type)
    ELSE IF Len(kernel_shape) # x_rank - 2 \/ Len(strides) # x_rank - 2
      THEN Raise("ValueError", <<>>, <<>>, n.attrs)
    ELSE IF cuda THEN
      LET r == pool_func(x, kernel_shape, pad, strides, fmts.compute,
                         pooling_type)
      IN IF r.ok THEN Ok(<<r.out>>, <<r.call>>, <<>>, n.attrs)
         ELSE Raise("ValueError", <<r.call>>, <<>>, n.attrs)
    ELSE
      LET perm1 == get_perm_from_formats(fmts.storage, fmts.compute)
          x1    == tf_transpose(x, perm1)
          r     == pool_func(x1, kernel_shape, pad, strides, fmts.compute,
                             pooling_type)
          perm2 == get_perm_from_formats(fmts.compute, fmts.storage)
      IN IF r.ok
           THEN Ok(<<tf_transpose(r.out, perm2)>>,
                   <<TransposeCall(x, perm1), r.call,
                     TransposeCall(r.out, perm2)>>, <<>>, n.attrs)
           ELSE Raise("ValueError", <<TransposeCall(x, perm1), r.call>>, <<>>,
                      n.attrs)

\* line 215: the comparison that decides whether the kernel covers an axis
covers(dim, k) == dim < k

\* the loop of lines 213-215: "yes", "no", or "IndexError" from kernel_shape[i]
RECURSIVE global_pool_loop(_, _, _, _)
global_pool_loop(i, spatial_dim, kernel_shape, global_pool) ==
  IF i = Len(spatial_dim) THEN (IF global_pool THEN "yes" ELSE "no")
  ELSE IF ~global_pool
    THEN global_pool_loop(i + 1, spatial_dim, kernel_shape, FALSE)
  ELSE IF i >= Len(kernel_shape) THEN "IndexError"
  ELSE global_pool_loop(i + 1, spatial_dim, kernel_shape,
                        covers(At(spatial_dim, i), At(kernel_shape, i)))

\* handle_average_pool (lines 209-222)
handle_average_pool(n, d, cuda) ==
  LET spatial_dim  == From(d[n.inputs[1]].shape, 2)
      kernel_shape == attrs_get(n.attrs, "kernel_shape", <<>>)
      global_pool  == global_pool_loop(0, spatial_dim, kernel_shape, TRUE)
  IN IF global_pool = "IndexError" THEN Raise("IndexError", <<>>, <<>>, n.attrs)
     ELSE IF global_pool = "yes" THEN handle_global_average_pool(n, d)
     ELSE _pool(n, d, cuda, "AVG")

\* handle_max_pool (lines 659-662)
handle_max_pool(n, d, cuda) == _pool(n, d, cuda, "MAX")

----------------------------------------------------------------------------
(* Convolution: handle_conv, handle_conv_transpose, _conv. *)

\* the axis label along which chan follows a tensor's contents: the output
\* channels of a weight tensor, the channels of a data tensor
TrackLabel(t) == IF "M" \in Elems(t.lay) THEN "M" ELSE "C"

\* the i-th of g equal consecutive parts of a list, i = 1..g
Chunk(lst, g, i) == SubSeq(lst, (i - 1) * (Len(lst) \div g) + 1,
                           i * (Len(lst) \div g))

\* tf.split(t, num_or_size_splits=g, axis=axis): g equal parts
tf_split(t, g, axis) ==
  LET p == PyIndex(axis, Len(t.shape)) + 1
  IN [ok    |-> g >= 1 /\ t.shape[p] % g = 0,
      parts |-> [i \in 1..g |->
                   [shape |-> [t.shape EXCEPT ![p] = t.shape[p] \div g],
                    lay   |-> t.lay,
                    chan  |-> IF t.lay[p] = TrackLabel(t)
                                THEN Chunk(t.chan, g, i) ELSE t.chan]],
      call  |-> [prim |-> "tf.split", lay |-> t.lay, axis |-> axis, num |-> g]]

RECURSIVE ConcatChans(_, _)
ConcatChans(ts, k) ==
  IF k > Len(ts) THEN <<>> ELSE ts[k].chan \o ConcatChans(ts, k + 1)

RECURSIVE SumShape(_, _, _)
SumShape(ts, p, k) ==
  IF k > Len(ts) THEN 0 ELSE ts[k].shape[p] + SumShape(ts, p, k + 1)

\* tf.concat(values, axis=axis)
tf_concat(ts, axis) ==
  LET p == PyIndex(axis, Len(ts[1].shape)) + 1
  IN [out  |-> [shape |-> [ts[1].shape EXCEPT ![p] = SumShape(ts, p, 1)],
                lay   |-> ts[1].lay,
                chan  |-> IF ts[1].lay[p] = TrackLabel(ts[1])
                            THEN ConcatChans(ts, 1) ELSE ts[1].chan],
      call |-> [prim |-> "tf.concat", lay |-> ts[1].lay, axis |-> axis,
                num |-> Len(ts)]]

\* tf.nn.convolution(x, w, "VALID", strides, dilation_rate, data_format): w is
\* (spatial..., in-channels, out-channels); data_format says where the channel
\* and spatial axes of x are.  Output channel j is x's channels convolved with
\* w's output channel j.
tf_nn_convolution(x, w, strides, dilations, fmt) ==
  LET cpos  == Find(fmt, "C") + 1
      wr    == Len(w.shape)
      shape == [p \in 1..Len(x.shape) |->
                  IF p = cpos THEN w.shape[wr]
                  ELSE IF p \in SpatialPos(fmt)
                    THEN LET k == Cardinality({q \in SpatialPos(fmt) : q < p}) + 1
                         IN CeilDiv(x.shape[p] - ((w.shape[k] - 1) * dilations[k] + 1) + 1,
                                    strides[k])
                  ELSE x.shape[p]]
  IN [ok   |-> /\ x.shape[cpos] = w.shape[wr - 1]
               /\ \A p \in 1..Len(shape) : shape[p] >= 1,
      out  |-> [shape |-> shape, lay |-> x.lay,
                chan  |-> [j \in 1..Len(w.chan) |->
                             [x |-> x.chan, w |-> w.chan[j], bias |-> 0]]],
      call |-> [prim |-> "tf.nn.convolution", lay |-> x.lay, fmt |-> fmt]]

\* tf.nn.bias_add(value, bias, data_format): adds bias[c] to channel c
tf_nn_bias_add(t, bias, fmt) ==
  [ok   |-> t.shape[Find(fmt, "C") + 1] = bias.shape[1],
   out  |-> [t EXCEPT !.chan = [j \in 1..Len(t.chan) |->
                                  [t.chan[j] EXCEPT !.bias = @ + 1]]],
   call |-> [prim |-> "tf.nn.bias_add", lay |-> t.lay, fmt |-> fmt]]

\* get_padding_as_op(x, pads) of the backend base class: tf.pad on the
\* spatial axes of the channel-first tensor
get_padding_as_op(x, pads) ==
  LET num_dim == Len(pads) \div 2
  IN [out  |-> [x EXCEPT !.shape = [p \in 1..Len(x.shape) |->
                   IF p <= 2 \/ p - 2 > num_dim THEN x.shape[p]
                   ELSE x.shape[p] + pads[p - 2] + pads[p - 2 + num_dim]]],
      call |-> [prim |-> "tf.pad", lay |-> x.lay, pads |-> pads]]

\* the mutant: slice i of the input meets the weights of the mirrored group
group_pairs_mirrored(xs, weight_groups) ==
  [i \in 1..Min(Len(xs), Len(weight_groups)) |->
     [x |-> xs[i], weight |-> weight_groups[Len(weight_groups) + 1 - i]]]

\* line 334: zip(xs, weight_groups)
group_pairs(xs, weight_groups) ==
  [i \in 1..Min(Len(xs), Len(weight_groups)) |->
     [x |-> xs[i], weight |-> weight_groups[i]]]

\* lines 319-324: the axis the input is split along
group_split_axis(cuda) == IF cuda THEN 1 ELSE -1

\* a list of primitive results: are all ok, their outputs, their calls
AllOk(rs) == \A k \in 1..Len(rs) : rs[k].ok
Outs(rs) == [k \in 1..Len(rs) |-> rs[k].out]
Calls(rs) == [k \in 1..Len(rs) |-> rs[k].call]

\* the group branch of _conv (lines 314-358); x is the input after the
\* explicit padding, weights the transposed weights
_conv_group(n, d, cuda, fmts, x, weights, strides, dilations, calls0) ==
  LET g       == n.attrs.group
      wsplit  == tf_split(weights, g, -1)
      perm1   == get_perm_from_formats(fmts.storage, fmts.compute)
      perm2   == get_perm_from_formats(fmts.compute, fmts.storage)
      xc      == IF cuda THEN x ELSE tf_transpose(x, perm1)
      tcalls  == IF cuda THEN <<>> ELSE <<TransposeCall(x, perm1)>>
      xsplit  == tf_split(xc, g, group_split_axis(cuda))
      pairs   == group_pairs(xsplit.parts, wsplit.parts)
      convs   == [i \in 1..Len(pairs) |->
                    tf_nn_convolution(pairs[i].x, pairs[i].weight, strides,
                                      dilations, fmts.compute)]
      cat     == tf_concat(Outs(convs), IF cuda THEN 1 ELSE -1)
      calls1  == calls0 \o <<wsplit.call>> \o tcalls \o <<xsplit.call>>
      calls2  == calls1 \o Calls(convs) \o <<cat.call>>
  IN
  IF ~wsplit.ok THEN Raise("ValueError", calls0 \o <<wsplit.call>>, <<>>, n.attrs)
  ELSE IF ~xsplit.ok THEN Raise("ValueError", calls1, <<>>, n.attrs)
  ELSE IF ~AllOk(convs)
    THEN Raise("ValueError", calls1 \o Calls(convs), <<>>, n.attrs)
  ELSE IF Len(n.inputs) = 2 THEN
    IF cuda THEN Ok(<<cat.out>>, calls2, <<>>, n.attrs)
    ELSE Ok(<<tf_transpose(cat.out, perm2)>>,
            calls2 \o <<TransposeCall(cat.out, perm2)>>, <<>>, n.attrs)
  ELSE
    LET bias == d[n.inputs[3]]
        b    == tf_nn_bias_add(cat.out, bias, fmts.compute)
    IN IF ~b.ok THEN Raise("ValueError", calls2 \o <<b.call>>, <<>>, n.attrs)
       ELSE IF cuda THEN Ok(<<b.out>>, calls2 \o <<b.call>>, <<>>, n.attrs)
       ELSE Ok(<<tf_transpose(b.out, perm2)>>,
               calls2 \o <<b.call, TransposeCall(b.out, perm2)>>, <<>>, n.attrs)

\* the mutant: the bias is added to the convolution result as it is, in
\* storage layout
bias_operand_as_is(convolved, cuda, fmts) == [t |-> convolved, calls |-> <<>>]

\* lines 381-384: the convolution result is brought to compute layout for
\* bias_add
bias_operand(convolved, cuda, fmts) ==
  IF cuda THEN [t |-> convolved, calls |-> <<>>]
  ELSE LET perm == get_perm_from_formats(fmts.storage, fmts.compute)
       IN [t |-> tf_transpose(convolved, perm),
           calls |-> <<TransposeCall(convolved, perm)>>]

\* _conv without group (lines 360-390)
_conv_plain(n, d, cuda, fmts, x, weights, strides, dilations, calls0) ==
  LET perm1   == get_perm_from_formats(fmts.storage, fmts.compute)
      perm2   == get_perm_from_formats(fmts.compute, fmts.storage)
      xc      == IF cuda THEN x ELSE tf_transpose(x, perm1)
      calls1  == calls0 \o (IF cuda THEN <<>> ELSE <<TransposeCall(x, perm1)>>)
      c       == tf_nn_convolution(xc, weights, strides, dilations, fmts.compute)
      conv    == IF cuda THEN c.out ELSE tf_transpose(c.out, perm2)
      calls2  == calls1 \o <<c.call>>
                 \o (IF cuda THEN <<>> ELSE <<TransposeCall(c.out, perm2)>>)
  IN
  IF ~c.ok THEN Raise("ValueError", calls1 \o <<c.call>>, <<>>, n.attrs)
  ELSE IF Len(n.inputs) = 2 THEN Ok(<<conv>>, calls2, <<>>, n.attrs)
  ELSE
    LET bias == d[n.inputs[3]]
        bo   == bias_operand(conv, cuda, fmts)
        b    == tf_nn_bias_add(bo.t, bias, fmts.compute)
        calls3 == calls2 \o bo.calls \o <<b.call>>
    IN IF ~b.ok THEN Raise("ValueError", calls3, <<>>, n.attrs)
       ELSE IF cuda THEN Ok(<<b.out>>, calls3, <<>>, n.attrs)
       ELSE Ok(<<tf_transpose(b.out, perm2)>>,
               calls3 \o <<TransposeCall(b.out, perm2)>>, <<>>, n.attrs)

\* _conv (lines 281-390)
_conv(n, d, cuda, transpose) ==
  LET x            == d[n.inputs[1]]
      x_rank       == Len(x.shape)
      fmts         == get_data_format(x_rank, cuda)
      in_weights   == d[n.inputs[2]]
      weights_rank == Len(in_weights.shape)
      perm         == From(range(weights_rank), 2)
                      \o (IF transpose THEN <<0, 1>> ELSE <<1, 0>>)
      weights      == tf_transpose(in_weights, perm)
      dilations    == attrs_get(n.attrs, "dilations", Repeat(1, x_rank - 2))
      strides      == attrs_get(n.attrs, "strides", Repeat(1, x_rank - 2))
      padded       == get_padding_as_op(x, attrs_get(n.attrs, "pads", <<>>))
      has_pads     == "pads" \in DOMAIN n.attrs
      x1           == IF has_pads THEN padded.out ELSE x
      calls0       == <<TransposeCall(in_weights, perm)>>
                      \o (IF has_pads THEN <<padded.call>> ELSE <<>>)
  IN
  IF "kernel_shape" \in DOMAIN n.attrs
     /\ From(in_weights.shape, 2) # n.attrs.kernel_shape
    THEN Raise("AssertionError", <<>>, <<>>, n.attrs)
  ELSE IF "group" \in DOMAIN n.attrs
    THEN _conv_group(n, d, cuda, fmts, x1, weights, strides, dilations, calls0)
  ELSE _conv_plain(n, d, cuda, fmts, x1, weights, strides, dilations, calls0)

handle_conv(n, d, cuda) == _conv(n, d, cuda, FALSE)

handle_conv_transpose(n, d, cuda) == _conv(n, d, cuda, TRUE)

----------------------------------------------------------------------------
(* handle_depth_to_space, handle_space_to_depth *)

\* tf.depth_to_space / tf.space_to_depth(x, block_size, data_format)
tf_depth_space(prim, x, bs, fmt) ==
  LET cpos == Find(fmt, "C") + 1
      up   == prim = "tf.depth_to_space"
      shape == [p \in 1..Len(x.shape) |->
                  IF p = cpos
                    THEN (IF up THEN x.shape[p] \div (bs * bs)
                          ELSE x.shape[p] * bs * bs)
                  ELSE IF p \in SpatialPos(fmt)
                    THEN (IF up THEN x.shape[p] * bs ELSE x.shape[p] \div bs)
                  ELSE x.shape[p]]
  IN [ok   |-> /\ bs >= 1
               /\ IF up THEN x.shape[cpos] % (bs * bs) = 0
                  ELSE \A p \in SpatialPos(fmt) : x.shape[p] % bs = 0,
      out  |-> [shape |-> shape, lay |-> x.lay,
                chan |-> [j \in 1..shape[Find(x.lay, "C") + 1] |-> j]],
      call |-> [prim |-> prim, lay |-> x.lay, fmt |-> fmt]]

\* the common body of handle_depth_to_space (lines 400-416) and
\* handle_space_to_depth (lines 822-838)
depth_space_rule(prim, n, d, cuda) ==
  LET x      == d[n.inputs[1]]
      x_rank == Len(x.shape)
      fmts   == get_data_format(x_rank, cuda)
      perm1  == get_perm_from_formats(fmts.storage, fmts.compute)
      perm2  == get_perm_from_formats(fmts.compute, fmts.storage)
      xc     == IF cuda THEN x ELSE tf_transpose(x, perm1)
      calls1 == IF cuda THEN <<>> ELSE <<TransposeCall(x, perm1)>>
  IN
  IF "blocksize" \notin DOMAIN n.attrs
    THEN Raise("KeyError", calls1, <<>>, n.attrs)
  ELSE
    LET y == tf_depth_space(prim, xc, n.attrs.blocksize, fmts.compute)
    IN IF ~y.ok THEN Raise("ValueError", calls1 \o <<y.call>>, <<>>, n.attrs)
       ELSE IF cuda THEN Ok(<<y.out>>, <<y.call>>, <<>>, n.attrs)
       ELSE Ok(<<tf_transpose(y.out, perm2)>>,
               calls1 \o <<y.call, TransposeCall(y.out, perm2)>>, <<>>, n.attrs)

handle_depth_to_space(n, d, cuda) ==
  depth_space_rule("tf.depth_to_space", n, d, cuda)

handle_space_to_depth(n, d, cuda) ==
  depth_space_rule("tf.space_to_depth", n, d, cuda)

----------------------------------------------------------------------------
(* handle_arg_max, handle_arg_min *)

\* a list without its element at Python index i
Without(lst, i) == [k \in 1..(Len(lst) - 1) |-> IF k <= i THEN lst[k] ELSE lst[k + 1]]

\* the mutant: the warning is raised as an error
arg_keepdims_fatal(keepdims, op) ==
  IF keepdims = 1 THEN [fatal |-> TRUE, warns |-> <<>>]
  ELSE [fatal |-> FALSE, warns |-> <<>>]

\* lines 48-51 / 58-61: keepdims equal to 1 is warned about, nothing else
arg_keepdims(keepdims, op) ==
  IF keepdims = 1
    THEN [fatal |-> FALSE,
          warns |-> <<[category |-> "UserWarning", about |-> op]>>]
    ELSE [fatal |-> FALSE, warns |-> <<>>]

\* the common body of handle_arg_max (lines 44-52) and handle_arg_min (54-62)
arg_rule(prim, op, n, d) ==
  LET data == d[n.inputs[1]]
  IN
  IF "axis" \notin DOMAIN n.attrs THEN Raise("KeyError", <<>>, <<>>, n.attrs)
  ELSE
    LET axis     == n.attrs.axis
        keepdims == attrs_get(n.attrs, "keepdims", 1)
        w        == arg_keepdims(keepdims, op)
        a        == PyIndex(axis, Len(data.shape))
        call     == [prim |-> prim, axis |-> axis]
    IN IF w.fatal THEN Raise("UserWarning", <<>>, w.warns, n.attrs)
       ELSE IF a = -1 THEN Raise("ValueError", <<call>>, w.warns, n.attrs)
       ELSE Ok(<<[shape |-> Without(data.shape, a),
                  lay |-> Without(data.lay, a), chan |-> <<>>]>>,
               <<call>>, w.warns, n.attrs)

handle_arg_max(n, d) == arg_rule("tf.argmax", "ArgMax", n, d)

handle_arg_min(n, d) == arg_rule("tf.argmin", "ArgMin", n, d)

----------------------------------------------------------------------------
(* handle_split, handle_reshape, handle_unsqueeze *)

RECURSIVE Sum(_)
Sum(lst) == IF lst = <<>> THEN 0 ELSE Head(lst) + Sum(Tail(lst))

RECURSIVE Prod(_)
Prod(lst) == IF lst = <<>> THEN 1 ELSE Head(lst) * Prod(Tail(lst))

\* handle_split (lines 840-845)
handle_split(n, d) ==
  IF "split" \notin DOMAIN n.attrs /\ Len(n.inputs) < 2
    THEN Raise("IndexError", <<>>, <<>>, n.attrs)
  ELSE IF "axis" \notin DOMAIN n.attrs
    THEN Raise("KeyError", <<>>, <<>>, n.attrs)
  ELSE
    LET x     == d[n.inputs[1]]
        split == IF "split" \in DOMAIN n.attrs THEN n.attrs.split
                 ELSE d[n.inputs[2]].value
        axis  == n.attrs.axis
        a     == PyIndex(axis, Len(x.shape))
        call  == [prim |-> "tf.split", lay |-> x.lay, axis |-> axis,
                  num |-> Len(split)]
    IN IF a = -1 \/ Sum(split) # At(x.shape, IF a = -1 THEN 0 ELSE a)
         THEN Raise("ValueError", <<call>>, <<>>, n.attrs)
         ELSE Ok([k \in 1..Len(split) |->
                    [shape |-> SetAt(x.shape, a, split[k]), lay |-> x.lay,
                     chan |-> <<>>]],
                 <<call>>, <<>>, n.attrs)

\* handle_reshape (lines 756-760), for a shape attribute of positive extents
handle_reshape(n, d) ==
  IF "shape" \notin DOMAIN n.attrs THEN Raise("KeyError", <<>>, <<>>, n.attrs)
  ELSE
    LET tensor == d[n.inputs[1]]
        shape  == n.attrs.shape
        call   == [prim |-> "tf.reshape", shape |-> shape]
    IN IF Prod(shape) # Prod(tensor.shape)
         THEN Raise("ValueError", <<call>>, <<>>, n.attrs)
         ELSE Ok(<<[shape |-> shape, lay |-> <<>>, chan |-> <<>>]>>,
                 <<call>>, <<>>, n.attrs)

\* sorted(lst), for a list of distinct integers
RECURSIVE sorted(_)
sorted(lst) ==
  IF lst = <<>> THEN <<>>
  ELSE LET m == CHOOSE v \in Elems(lst) : \A u \in Elems(lst) : v <= u
           k == CHOOSE j \in 1..Len(lst) : lst[j] = m
       IN <<m>> \o sorted(Without(lst, k - 1))

\* the loop of lines 888-889: tf.expand_dims(x, axis) for each axis in turn
RECURSIVE unsqueeze_loop(_, _, _)
unsqueeze_loop(shape, axis_list, calls) ==
  IF axis_list = <<>> THEN [ok |-> TRUE, shape |-> shape, calls |-> calls]
  ELSE
    LET axis == Head(axis_list)
        call == [prim |-> "tf.expand_dims", axis |-> axis]
        pos  == IF axis >= 0 THEN axis ELSE axis + Len(shape) + 1
    IN IF axis > Len(shape) \/ axis < -(Len(shape) + 1)
         THEN [ok |-> FALSE, shape |-> shape, calls |-> Append(calls, call)]
         ELSE unsqueeze_loop(
                [k \in 1..(Len(shape) + 1) |->
                   IF k <= pos THEN shape[k]
                   ELSE IF k = pos + 1 THEN 1 ELSE shape[k - 1]],
                Tail(axis_list), Append(calls, call))

\* handle_unsqueeze (lines 884-890)
handle_unsqueeze(n, d) ==
  IF "axes" \notin DOMAIN n.attrs THEN Raise("KeyError", <<>>, <<>>, n.attrs)
  ELSE
    LET x == d[n.inputs[1]]
        r == unsqueeze_loop(x.shape, sorted(n.attrs.axes), <<>>)
    IN IF ~r.ok THEN Raise("ValueError", r.calls, <<>>, n.attrs)
       ELSE Ok(<<[shape |-> r.shape, lay |-> <<>>, chan |-> <<>>]>>,
               r.calls, <<>>, n.attrs)

----------------------------------------------------------------------------
(* handle_l_s_t_m *)

\* the operators ONNX_OP_TO_TF_OP (onnx_tf/common.py) maps one to one, among
\* the activation names the model uses
ONNX_OP_TO_TF_OP == {"relu", "sigmoid", "tanh"}

\* str.lower() on the activation names the model uses
lower(name) ==
  CASE name = "Sigmoid" -> "sigmoid"
    [] name = "Tanh"    -> "tanh"
    [] name = "Relu"    -> "relu"
    [] name = "Elu"     -> "elu"
    [] OTHER            -> name

LstmWarning(third) == [category |-> "UserWarning", about |-> third]

\* lines 570-585: the activations attribute.  err is the exception raised, if
\* any; tf_activations the cell activations chosen; warns the warnings
lstm_activations(attrs, direction) ==
  IF "activations" \notin DOMAIN attrs
    THEN [err |-> "", tf_activations |-> <<"tanh">>, warns |-> <<>>]
  ELSE
    LET activations == [k \in 1..Len(attrs.activations) |->
                          lower(attrs.activations[k])]
        len  == Len(activations)
        bad1 == len >= 2 /\ (activations[1] # "sigmoid" \/ activations[2] # "tanh")
        w1   == IF bad1 /\ len >= 3 THEN <<LstmWarning(activations[3])>> ELSE <<>>
    IN
    IF len < 3 THEN [err |-> "IndexError", tf_activations |-> <<>>, warns |-> <<>>]
    ELSE IF activations[3] \notin ONNX_OP_TO_TF_OP
      THEN [err |-> "KeyError", tf_activations |-> <<>>, warns |-> w1]
    ELSE IF direction # "bidirectional"
      THEN [err |-> "", tf_activations |-> <<activations[3]>>, warns |-> w1]
    ELSE IF len < 5
      THEN [err |-> "IndexError", tf_activations |-> <<activations[3]>>,
            warns |-> w1]
    ELSE
      LET bad2 == activations[4] # "sigmoid" \/ activations[5] # "tanh"
          w2   == IF bad2 THEN w1 \o <<LstmWarning(activations[5])>> ELSE w1
      IN IF len < 6
           THEN [err |-> "IndexError", tf_activations |-> <<activations[3]>>,
                 warns |-> w2]
         ELSE IF activations[6] \notin ONNX_OP_TO_TF_OP
           THEN [err |-> "KeyError", tf_activations |-> <<activations[3]>>,
                 warns |-> w2]
         ELSE [err |-> "", tf_activations |-> <<activations[3], activations[6]>>,
               warns |-> w2]

\* handle_l_s_t_m (lines 560-621)
handle_l_s_t_m(n, d) ==
  IF "hidden_size" \notin DOMAIN n.attrs
    THEN Raise("KeyError", <<>>, <<>>, n.attrs)
  ELSE
    LET hidden_size == n.attrs.hidden_size
        direction   == attrs_get(n.attrs, "direction", "forward")
        act         == lstm_activations(n.attrs, direction)
        x           == d[n.inputs[1]]
        cell        == [prim |-> "tf.contrib.rnn.LSTMCell",
                        num_units |-> hidden_size,
                        activation |-> IF act.tf_activations = <<>> THEN ""
                                       ELSE act.tf_activations[1],
                        cell_clip |-> attrs_get(n.attrs, "clip", 0)]
        out(role, shape) == [shape |-> shape, lay |-> <<>>, chan |-> <<>>,
                             role |-> role]
        seq_shape   == <<x.shape[1], x.shape[2], hidden_size>>
        st_shape    == <<x.shape[2], hidden_size>>
    IN
    IF act.err # "" THEN Raise(act.err, <<>>, act.warns, n.attrs)
    ELSE IF direction = "forward"
      THEN Ok(<<out("output", seq_shape), out("h", st_shape), out("c", st_shape)>>,
              <<cell, [prim |-> "tf.nn.dynamic_rnn", reversed |-> FALSE]>>,
              act.warns, n.attrs)
    ELSE IF direction = "reverse"
      THEN Ok(<<out("output", seq_shape), out("h", st_shape), out("c", st_shape)>>,
              <<cell, [prim |-> "array_ops.reverse", axis |-> <<0>>],
                [prim |-> "tf.nn.dynamic_rnn", reversed |-> TRUE]>>,
              act.warns, n.attrs)
    ELSE IF direction = "bidirectional"
      \* cell_bw wraps the list [LSTMCell] and not a cell (lines 592-593):
      \* the backward pass asks the list for its state and fails; and
      \* state[0] would be the forward cell's 1-tuple of states, which
      \* c, h = state cannot unpack (lines 616-617)
      THEN Raise("AttributeError",
                 <<cell, [prim |-> "tf.nn.bidirectional_dynamic_rnn",
                          reversed |-> FALSE]>>, act.warns, n.attrs)
    ELSE Raise("UnboundLocalError", <<cell>>, act.warns, n.attrs)

----------------------------------------------------------------------------
(* handle_softmax, handle_log_softmax *)

\* tf.reshape(x, (rows, cols)) of a tensor whose elements vals are in row-major
\* order: the rows of the 2D view
tf_reshape_2d(vals, rows, cols) ==
  [r \in 1..rows |-> [c \in 1..cols |-> vals[(r - 1) * cols + c]]]

\* tf.reduce_max(x) with no axis: the maximum over all the elements
tf_reduce_max(x) ==
  LET all == {x[r][c] : r \in 1..Len(x), c \in 1..Len(x[1])}
  IN CHOOSE m \in all : \A v \in all : v <= m

\* x - m, the scalar m broadcast over x
tf_subtract(x, m) == [r \in 1..Len(x) |-> [c \in 1..Len(x[r]) |-> x[r][c] - m]]

\* the common body of handle_softmax (lines 802-820) and handle_log_softmax
\* (lines 634-652); prim is tf.nn.softmax or tf.nn.log_softmax, called on
\* logits
softmax_rule(prim, n, d) ==
  LET x    == d[n.inputs[1]]
      rank == Len(x.shape)
      out  == [shape |-> x.shape, lay |-> x.lay, chan |-> x.chan]
  IN
  IF "axis" \in DOMAIN n.attrs /\ n.attrs.axis = rank - 1
    THEN Ok(<<out>>,
            <<[prim |-> prim,
               logits |-> tf_reshape_2d(x.vals, Prod(SubSeq(x.shape, 1, rank - 1)),
                                        x.shape[rank])]>>,
            <<>>, n.attrs)
  ELSE
    LET axis0     == attrs_get(n.attrs, "axis", 1)
        axis      == IF axis0 >= 0 THEN axis0 ELSE rank + axis0
        cal_shape == <<Prod(SubSeq(x.shape, 1, axis)),
                       Prod(SubSeq(x.shape, axis + 1, rank))>>
        x2        == tf_reshape_2d(x.vals, cal_shape[1], cal_shape[2])
        m         == tf_reduce_max(x2)
        logits    == tf_subtract(x2, m)
    IN Ok(<<out>>,
          <<[prim |-> "tf.reshape", shape |-> cal_shape],
            [prim |-> "tf.reduce_max", result |-> m],
            [prim |-> "tf.subtract", y |-> m],
            [prim |-> prim, logits |-> logits],
            [prim |-> "tf.reshape", shape |-> x.shape]>>,
          <<>>, n.attrs)

handle_softmax(n, d) == softmax_rule("tf.nn.softmax", n, d)

handle_log_softmax(n, d) == softmax_rule("tf.nn.log_softmax", n, d)

----------------------------------------------------------------------------
(* The nodes and symbol tables the model lowers. *)

\* cuda: what supports_device("CUDA") answers; only the layout-sensitive rules
\* ask, so the other rules are run with one answer
Case(op_type, inputs, attrs, d, cuda) ==
  [node |-> [op_type |-> op_type, inputs |-> inputs, attrs |-> attrs],
   input_dict |-> d, cuda |-> cuda]

\* starts/ends entries: below -L, negative, zero, inside, above L
SliceVals == {-MaxIdx, -1, 0, 2, MaxIdx}

SliceShapes == {<<a>> : a \in 1..MaxDim} \cup {<<a, MaxDim>> : a \in 1..MaxDim}

\* lists of length n over S
Lists(S, n) == [1..n -> S]

\* the axes attribute of a well-formed Slice: absent, or distinct axes of the tensor
SliceAxes(rank, n) ==
  {NoAttrs} \cup
  {[axes |-> ax] : ax \in {p \in Lists(0..(rank - 1), n) :
                              \A i, j \in 1..n : i # j => p[i] # p[j]}}

SliceCases ==
  UNION {
    UNION {
      {Case("Slice", <<"X">>, [starts |-> s, ends |-> e] @@ ax,
            [X |-> Placeholder(sh)], FALSE) :
         s \in Lists(SliceVals, n), e \in Lists(SliceVals, n),
         ax \in SliceAxes(Len(sh), n)}
      : n \in 1..Len(sh)}
    : sh \in SliceShapes}

\* the shapes pooled: batch 1, one channel, up to two spatial axes
PoolShapes ==
  {<<1, 1>>} \cup {<<1, 1, w>> : w \in 1..MaxSpatial}
             \cup {<<1, 1, h, h>> : h \in 1..MaxSpatial}

\* the optional attributes of a pooling node over `sp` spatial axes
PoolKernel(sp) ==
  {NoAttrs} \cup {[kernel_shape |-> Repeat(k, sp)] : k \in 1..MaxKernel}

PoolStrides(sp) ==
  {NoAttrs} \cup {[strides |-> Repeat(st, sp)] : st \in 1..MaxStride}

PoolAutoPad ==
  {NoAttrs} \cup
  {[auto_pad |-> a] : a \in {"SAME_UPPER", "VALID", "SAME_LOWER", "NOTSET"}}

\* pads: absent, none, symmetric, more at the begin, more at the end
PoolPads(sp) ==
  {NoAttrs} \cup
  {[pads |-> Repeat(b, sp) \o Repeat(e, sp)] : b, e \in 0..1}

PoolCases ==
  UNION {
    {Case(op, <<"X">>, k @@ st @@ ap @@ pd, [X |-> Placeholder(sh)], cuda) :
       op \in {"AveragePool", "MaxPool"},
       k \in PoolKernel(Len(sh) - 2), st \in PoolStrides(Len(sh) - 2),
       ap \in PoolAutoPad, pd \in PoolPads(Len(sh) - 2), cuda \in BOOLEAN}
    : sh \in PoolShapes}

\* a weight tensor: (M x C/g x KH x KW) for Conv, (C x M/g x KH x KW) for
\* ConvTranspose; chan follows the M axis
Weights(shape, transpose) ==
  [shape |-> shape,
   lay   |-> IF transpose THEN <<"C", "M", "KH", "KW">>
             ELSE <<"M", "C", "KH", "KW">>,
   chan  |-> [k \in 1..(IF transpose THEN shape[2] ELSE shape[1]) |-> k]]

\* the symbol table of a convolution over g groups, cpg input and mpg output
\* channels per group and a k x k kernel
ConvDict(transpose, g, cpg, mpg, k, bias) ==
  LET base == [X |-> Placeholder(<<1, g * cpg, ConvSpatial, ConvSpatial>>),
               W |-> Weights(IF transpose THEN <<g * cpg, mpg, k, k>>
                             ELSE <<g * mpg, cpg, k, k>>, transpose)]
  IN IF bias
       THEN base @@ [B |-> Placeholder(<<IF transpose THEN mpg ELSE g * mpg>>)]
       ELSE base

ConvGroup == {NoAttrs} \cup {[group |-> g] : g \in 1..MaxGroup}

ConvCases ==
  UNION {
    {Case(IF tr THEN "ConvTranspose" ELSE "Conv",
          IF bias THEN <<"X", "W", "B">> ELSE <<"X", "W">>,
          ga @@ pd @@ ks,
          ConvDict(tr, attrs_get(ga, "group", 1), cpg, mpg, k, bias), cuda) :
       ga \in ConvGroup, cpg \in 1..MaxPerGroup, mpg \in 1..MaxPerGroup,
       pd \in {NoAttrs, [pads |-> <<1, 0, 1, 0>>]},
       ks \in {NoAttrs, [kernel_shape |-> <<k, k>>]},
       bias \in BOOLEAN, cuda \in BOOLEAN, tr \in BOOLEAN}
    : k \in 1..2}

DepthSpaceCases ==
  {Case(op, <<"X">>, bs, [X |-> Placeholder(<<1, c, h, h>>)], cuda) :
     op \in {"DepthToSpace", "SpaceToDepth"},
     bs \in {NoAttrs} \cup {[blocksize |-> b] : b \in 1..2},
     c \in {1, 4}, h \in {2, 3}, cuda \in BOOLEAN}

ArgCases ==
  UNION {
    {Case(op, <<"X">>, ax @@ kd, [X |-> Placeholder(sh)], FALSE) :
       op \in {"ArgMax", "ArgMin"},
       ax \in {NoAttrs} \cup {[axis |-> a] : a \in 0..(Len(sh) - 1)},
       kd \in {NoAttrs} \cup {[keepdims |-> k] : k \in 0..1}}
    : sh \in {<<a>> : a \in 1..MaxDim} \cup {<<2, a>> : a \in 1..MaxDim}}

\* a constant tensor holding the sizes of a split
SizesTensor(sizes) ==
  [shape |-> <<Len(sizes)>>, lay |-> <<"N">>, chan |-> <<>>, value |-> sizes]

SplitCases ==
  {Case("Split", <<"X">>, sp @@ ax, [X |-> Placeholder(<<2, MaxDim>>)], FALSE) :
     sp \in {NoAttrs} \cup
            {[split |-> <<a, MaxDim - a>>] : a \in 1..(MaxDim - 1)},
     ax \in {NoAttrs} \cup {[axis |-> a] : a \in 0..1}}
  \cup
  {Case("Split", <<"X", "S">>, ax,
        [X |-> Placeholder(<<2, MaxDim>>),
         S |-> SizesTensor(<<a, MaxDim - a>>)], FALSE) :
     a \in 1..(MaxDim - 1),
     ax \in {NoAttrs} \cup {[axis |-> a] : a \in 0..1}}

ReshapeCases ==
  {Case("Reshape", <<"X">>, sh, [X |-> Placeholder(<<a, b>>)], FALSE) :
     a, b \in 1..MaxDim,
     sh \in {NoAttrs} \cup {[shape |-> <<c, e>>] : c, e \in 1..MaxDim}
                      \cup {[shape |-> <<c>>] : c \in 1..MaxDim}}

UnsqueezeCases ==
  {Case("Unsqueeze", <<"X">>, ax, [X |-> Placeholder(sh)], FALSE) :
     sh \in {<<a>> : a \in 1..MaxDim} \cup {<<2, a>> : a \in 1..MaxDim},
     ax \in {NoAttrs} \cup {[axes |-> <<a>>] : a \in 0..3}
                      \cup {[axes |-> <<a, b>>] : a, b \in 0..1}}

LstmActivations ==
  {NoAttrs} \cup
  {[activations |-> a] :
     a \in {<<"Sigmoid", "Tanh", "Tanh">>, <<"Relu", "Tanh", "Tanh">>,
            <<"Sigmoid", "Relu", "Relu">>, <<"Sigmoid", "Tanh", "Elu">>,
            <<"Sigmoid", "Tanh", "Tanh", "Sigmoid", "Tanh", "Tanh">>,
            <<"Sigmoid", "Tanh", "Tanh", "Tanh", "Sigmoid", "Relu">>}}

LstmCases ==
  {Case("LSTM", <<"X">>, hs @@ dr @@ cl @@ ac,
        [X |-> [shape |-> <<2, 1, 2>>, lay |-> <<"T", "N", "I">>, chan |-> <<>>]],
        FALSE) :
     hs \in {NoAttrs} \cup {[hidden_size |-> h] : h \in 1..MaxPerGroup},
     dr \in {NoAttrs} \cup
            {[direction |-> x] : x \in {"forward", "reverse", "bidirectional"}},
     cl \in {NoAttrs, [clip |-> 1]},
     ac \in LstmActivations}

\* Slice nodes that lack starts or ends, or slice nothing
SliceSparseCases ==
  {Case("Slice", <<"X">>, at, [X |-> Placeholder(<<MaxDim>>)], FALSE) :
     at \in {NoAttrs, [starts |-> <<0>>], [ends |-> <<1>>], [starts |-> <<>>],
              [starts |-> <<>>, ends |-> <<>>]}}

\* Softmax / LogSoftmax nodes on tensors of one or two rows whose elements are
\* followed
SoftmaxCases ==
  UNION {
    {Case(op, <<"X">>, ax,
          [X |-> [shape |-> sh, lay |-> StorageLabels(Len(sh)),
                  chan |-> [k \in 1..sh[2] |-> k], vals |-> v]], FALSE) :
       op \in {"Softmax", "LogSoftmax"},
       ax \in {NoAttrs} \cup {[axis |-> a] : a \in {-1, 0, 1}},
       v \in [1..Prod(sh) -> 0..MaxVal]}
    : sh \in {<<1, 2>>, <<2, 2>>}}

\* the average pool of a 1x3x4x4 tensor with a 2x2 kernel and stride 2
AveragePoolScenario ==
  {Case("AveragePool", <<"X">>,
        [kernel_shape |-> <<2, 2>>, strides |-> <<2, 2>>],
        [X |-> Placeholder(<<1, 3, 4, 4>>)], cuda) : cuda \in BOOLEAN}

Cases ==
  SoftmaxCases \cup AveragePoolScenario \cup SliceSparseCases \cup LstmCases \cup SliceCases \cup PoolCases \cup ConvCases \cup DepthSpaceCases \cup ArgCases
  \cup SplitCases \cup ReshapeCases \cup UnsqueezeCases

----------------------------------------------------------------------------
(* gen_opset.main: the scan that builds the version tables. *)

\* defs.get_all_schemas(): the operator schemas, by name
Schemas == <<"Relu", "Reshape">>

\* op_name_to_lower (onnx_tf/common.py) on the names the model uses
op_name_to_lower(name) ==
  CASE name = "Relu"    -> "relu"
    [] name = "Reshape" -> "reshape"
    [] OTHER            -> name

\* ONNX_OP_TO_TF_OP_STR (onnx_tf/common.py): schema name -> TF op name, for
\* the operators that map one to one
ONNX_OP_TO_TF_OP_STR == [Relu |-> "Relu"]

OpNames == {op_name_to_lower(Schemas[k]) : k \in 1..Len(Schemas)}

\* what a backend_v<n> module can hold: for which ops handle_<op> exists
BackendModules == SUBSET OpNames

\* what frontend_v<n>.ONNX_TO_HANDLER can hold: a handler is one TF op name
\* or a list of them
FrontendModules ==
  {NoAttrs,
   [reshape |-> [is_list |-> FALSE, names |-> <<"reshape">>]],
   [reshape |-> [is_list |-> TRUE, names |-> <<"reshape", "relu">>]]}

\* the tables with no entry
NoTable == [k \in {} |-> <<>>]

GenIdle ==
  /\ gen_pc = "idle"
  /\ version = 0
  /\ backend = {}
  /\ frontend = NoAttrs
  /\ schema_idx = 0
  /\ backend_opset_dict = NoTable
  /\ frontend_opset_dict = NoTable
  /\ frontend_tf_opset_dict = NoTable
  /\ scanned = <<>>

\* lines 17-19: the three empty dicts
GenInit ==
  /\ gen_pc = "tables"
  /\ version = 0
  /\ backend = {}
  /\ frontend = NoAttrs
  /\ schema_idx = 0
  /\ backend_opset_dict = NoTable
  /\ frontend_opset_dict = NoTable
  /\ frontend_tf_opset_dict = NoTable
  /\ scanned = <<>>

\* lines 21-26: an empty list per schema in the backend and frontend tables
InitTables ==
  /\ gen_pc = "tables"
  /\ backend_opset_dict' = [op \in OpNames |-> <<>>]
  /\ frontend_opset_dict' = [op \in OpNames |-> <<>>]
  /\ version' = 1
  /\ gen_pc' = "import"
  /\ UNCHANGED <<backend, frontend, schema_idx, frontend_tf_opset_dict, scanned,
                 lower_vars>>

\* lines 28-32: both modules of this version import
ImportModules ==
  /\ gen_pc = "import"
  /\ version <= MaxVersion
  /\ \E b \in BackendModules, f \in FrontendModules :
       /\ backend' = b
       /\ frontend' = f
       /\ scanned' = Append(scanned, [backend |-> b, frontend |-> f])
  /\ schema_idx' = 0
  /\ gen_pc' = "scan"
  /\ UNCHANGED <<version, backend_opset_dict, frontend_opset_dict,
                 frontend_tf_opset_dict, lower_vars>>

\* lines 33-34: one of the two imports raises, the while loop is left
ImportFails ==
  /\ gen_pc = "import"
  /\ gen_pc' = "write"
  /\ UNCHANGED <<version, backend, frontend, schema_idx, backend_opset_dict,
                 frontend_opset_dict, frontend_tf_opset_dict, scanned,
                 lower_vars>>

\* the mutant: a trivial op is recorded at every version
records_backend_any_version(has_backend_handler, v, op_name) ==
  has_backend_handler \/ op_name \in ONNX_OP_TO_TF_OP

\* lines 40-41: is this version recorded for the op in the backend table
records_backend(has_backend_handler, v, op_name) ==
  has_backend_handler \/ (v = 1 /\ op_name \in ONNX_OP_TO_TF_OP)

\* lines 44-52: the TF op names this schema is exported from at this version
tf_op_names_of(schema_name, op_name, fe, v) ==
  LET handled == IF op_name \in DOMAIN fe
                   THEN [k \in 1..Len(fe[op_name].names) |->
                           op_name_to_lower(fe[op_name].names[k])]
                   ELSE <<>>
      direct  == IF schema_name \in DOMAIN ONNX_OP_TO_TF_OP_STR /\ v = 1
                   THEN <<op_name_to_lower(ONNX_OP_TO_TF_OP_STR[schema_name])>>
                   ELSE <<>>
  IN handled \o direct

\* the loop of lines 53-54: setdefault(name, []).append(version) per name
RECURSIVE append_each(_, _, _)
append_each(table, names, v) ==
  IF names = <<>> THEN table
  ELSE LET name == Head(names)
           t1   == IF name \in DOMAIN table
                     THEN [table EXCEPT ![name] = Append(@, v)]
                     ELSE table @@ (name :> <<v>>)
       IN append_each(t1, Tail(names), v)

\* lines 36-56: one iteration of the for loop over the schemas
ScanSchema ==
  /\ gen_pc = "scan"
  /\ schema_idx < Len(Schemas)
  /\ LET schema_name == Schemas[schema_idx + 1]
         op_name     == op_name_to_lower(schema_name)
         has_backend_handler == op_name \in backend
         tf_op_names == tf_op_names_of(schema_name, op_name, frontend, version)
     IN /\ backend_opset_dict' =
             IF records_backend(has_backend_handler, version, op_name)
               THEN [backend_opset_dict EXCEPT ![op_name] = Append(@, version)]
               ELSE backend_opset_dict
        /\ frontend_tf_opset_dict' =
             append_each(frontend_tf_opset_dict, tf_op_names, version)
        /\ frontend_opset_dict' =
             IF tf_op_names # <<>>
               THEN [frontend_opset_dict EXCEPT ![op_name] = Append(@, version)]
               ELSE frontend_opset_dict
  /\ schema_idx' = schema_idx + 1
  /\ UNCHANGED <<gen_pc, version, backend, frontend, scanned, lower_vars>>

\* a variant: the scan skips a version
NextVersionSkips ==
  /\ gen_pc = "scan"
  /\ schema_idx = Len(Schemas)
  /\ version' = version + 2
  /\ gen_pc' = "import"
  /\ UNCHANGED <<backend, frontend, schema_idx, backend_opset_dict,
                 frontend_opset_dict, frontend_tf_opset_dict, scanned,
                 lower_vars>>

\* line 58: version += 1, and the while loop goes round
NextVersion ==
  /\ gen_pc = "scan"
  /\ schema_idx = Len(Schemas)
  /\ version' = version + 1
  /\ gen_pc' = "import"
  /\ UNCHANGED <<backend, frontend, schema_idx, backend_opset_dict,
                 frontend_opset_dict, frontend_tf_opset_dict, scanned,
                 lower_vars>>

\* lines 60-67: the three tables are written to opset_version.py
WriteFile ==
  /\ gen_pc = "write"
  /\ gen_pc' = "done"
  /\ UNCHANGED <<version, backend, frontend, schema_idx, backend_opset_dict,
                 frontend_opset_dict, frontend_tf_opset_dict, scanned,
                 lower_vars>>

GenNext ==
  \/ InitTables
  \/ ImportModules
  \/ ImportFails
  \/ ScanSchema
  \/ NextVersion
  \/ WriteFile

\* no node is being lowered
LowerIdle ==
  /\ node = [op_type |-> "", inputs |-> <<>>, attrs |-> NoAttrs]
  /\ node0 = node
  /\ input_dict = NoAttrs
  /\ input_dict0 = NoAttrs
  /\ support_cuda = FALSE
  /\ ncalls = 0
  /\ outcome = NotRun

InitOpset ==
  /\ GenInit
  /\ LowerIdle

SpecOpset == InitOpset /\ [][GenNext]_vars

\* main is one sequential program: it takes its next step whenever it has one
SpecOpsetFair == InitOpset /\ [][GenNext]_vars /\ WF_vars(GenNext)

----------------------------------------------------------------------------
(* The state machine: the host graph walker hands a node to its rule. *)

Init ==
  /\ \E c \in Cases :
       /\ node = c.node
       /\ input_dict = c.input_dict
       /\ node0 = c.node
       /\ input_dict0 = c.input_dict
       /\ support_cuda = c.cuda
  /\ ncalls = 0
  /\ outcome = NotRun
  /\ GenIdle

\* one call of rule(node, input_dict) has returned or raised: what it
\* returned, and what it left in node.attrs, are kept
Returned(r) ==
  /\ ncalls' = ncalls + 1
  /\ node' = [node EXCEPT !.attrs = r.attrs]
  /\ outcome' = [status |-> r.status, outputs |-> r.outputs, calls |-> r.calls,
                 warns |-> r.warns]
  /\ UNCHANGED <<input_dict, support_cuda, node0, input_dict0, gen_vars>>

LowerSlice ==
  /\ node.op_type = "Slice"
  /\ ncalls < MaxCalls
  /\ Returned(handle_slice(node, input_dict))

LowerAveragePool ==
  /\ node.op_type = "AveragePool"
  /\ ncalls < MaxCalls
  /\ Returned(handle_average_pool(node, input_dict, support_cuda))

LowerMaxPool ==
  /\ node.op_type = "MaxPool"
  /\ ncalls < MaxCalls
  /\ Returned(handle_max_pool(node, input_dict, support_cuda))

LowerConv ==
  /\ node.op_type = "Conv"
  /\ ncalls < MaxCalls
  /\ Returned(handle_conv(node, input_dict, support_cuda))

LowerConvTranspose ==
  /\ node.op_type = "ConvTranspose"
  /\ ncalls < MaxCalls
  /\ Returned(handle_conv_transpose(node, input_dict, support_cuda))

LowerDepthToSpace ==
  /\ node.op_type = "DepthToSpace"
  /\ ncalls < MaxCalls
  /\ Returned(handle_depth_to_space(node, input_dict, support_cuda))

LowerSpaceToDepth ==
  /\ node.op_type = "SpaceToDepth"
  /\ ncalls < MaxCalls
  /\ Returned(handle_space_to_depth(node, input_dict, support_cuda))

LowerArgMax ==
  /\ node.op_type = "ArgMax"
  /\ ncalls < MaxCalls
  /\ Returned(handle_arg_max(node, input_dict))

LowerArgMin ==
  /\ node.op_type = "ArgMin"
  /\ ncalls < MaxCalls
  /\ Returned(handle_arg_min(node, input_dict))

LowerSplit ==
  /\ node.op_type = "Split"
  /\ ncalls < MaxCalls
  /\ Returned(handle_split(node, input_dict))

LowerReshape ==
  /\ node.op_type = "Reshape"
  /\ ncalls < MaxCalls
  /\ Returned(handle_reshape(node, input_dict))

LowerUnsqueeze ==
  /\ node.op_type = "Unsqueeze"
  /\ ncalls < MaxCalls
  /\ Returned(handle_unsqueeze(node, input_dict))

LowerLSTM ==
  /\ node.op_type = "LSTM"
  /\ ncalls < MaxCalls
  /\ Returned(handle_l_s_t_m(node, input_dict))

LowerSoftmax ==
  /\ node.op_type = "Softmax"
  /\ ncalls < MaxCalls
  /\ Returned(handle_softmax(node, input_dict))

LowerLogSoftmax ==
  /\ node.op_type = "LogSoftmax"
  /\ ncalls < MaxCalls
  /\ Returned(handle_log_softmax(node, input_dict))

Next ==
  \/ LowerSlice
  \/ LowerSoftmax
  \/ LowerLogSoftmax
  \/ LowerLSTM
  \/ LowerAveragePool
  \/ LowerMaxPool
  \/ LowerConv
  \/ LowerConvTranspose
  \/ LowerDepthToSpace
  \/ LowerSpaceToDepth
  \/ LowerArgMax
  \/ LowerArgMin
  \/ LowerSplit
  \/ LowerReshape
  \/ LowerUnsqueeze

Spec == Init /\ [][Next]_vars

----------------------------------------------------------------------------
(* The claims. *)

\* the calls of a primitive among the calls of the last lowering
CallsOf(prim) == {k \in 1..Len(outcome.calls) : outcome.calls[k].prim = prim}

\* the node is the Slice of the slice-clamp scenario: starts=[5], ends=[-1],
\* axes=[0] on a tensor whose axis 0 has length 4, lowered once
ClampScenario ==
  /\ node0.op_type = "Slice"
  /\ ncalls = 1
  /\ node0.attrs = [starts |-> <<5>>, ends |-> <<-1>>, axes |-> <<0>>]
  /\ input_dict.X.shape[1] = 4

\* C1, as stated: in the slice-clamp scenario the slice passed to tf.slice has
\* begin 4 and size 0 on axis 0, the effective end being 4.
C1_AsStated ==
  ClampScenario =>
    /\ Len(outcome.calls) = 1
    /\ outcome.calls[1].begin[1] = 4
    /\ outcome.calls[1].size[1] = 0
    /\ outcome.calls[1].begin[1] + outcome.calls[1].size[1] = 4

\* C1, amended: in the slice-clamp scenario the effective end is 3 (4 + -1),
\* the effective start is clamped to 4, and tf.slice is passed begin 4 and
\* size -1 on axis 0, which it reads as the rest of the axis: an empty slice.
C1_ClampScenario ==
  ClampScenario =>
    /\ outcome.status = "ok"
    /\ Len(outcome.calls) = 1
    /\ outcome.calls[1].prim = "tf.slice"
    /\ outcome.calls[1].begin[1] = 4
    /\ outcome.calls[1].size[1] = -1
    /\ outcome.calls[1].begin[1] + outcome.calls[1].size[1] = 3
    /\ outcome.outputs[1].shape[1] = 0

C1_Witness == ClampScenario /\ outcome.status = "ok"

\* the effective end and start the claim C2 gives for an axis of length L
C2_End(L, e) == LET rel == IF e < 0 THEN e + L ELSE e IN IF L < rel THEN L ELSE rel
C2_Start(L, s) == IF L < s THEN L ELSE s

\* what C2 says of a call of handle_slice that saw `attrs` on a tensor of
\* shape `shape` and passed `call` to tf.slice
C2_Holds(attrs, shape, call) ==
  LET n    == Len(attrs.starts)
      axes == IF "axes" \in DOMAIN attrs THEN attrs.axes ELSE [k \in 1..n |-> k - 1]
  IN \A p \in 1..Len(shape) :
       IF \E i \in 1..n : axes[i] = p - 1
         THEN LET i == CHOOSE j \in 1..n : axes[j] = p - 1
              IN /\ call.begin[p] = C2_Start(shape[p], attrs.starts[i])
                 /\ call.size[p] = C2_End(shape[p], attrs.ends[i])
                                   - C2_Start(shape[p], attrs.starts[i])
         ELSE call.begin[p] = 0 /\ call.size[p] = shape[p]

\* C2: every call of handle_slice on a node with starts and ends (axes
\* defaulting to 0..len(starts)-1) passes tf.slice, per listed axis a of length
\* L, begin min(L, s) and size min(L, e + L if e < 0 else e) - min(L, s), and
\* begin 0 and the full length on every axis not listed.
C2_SliceArithmetic ==
  [][(LowerSlice /\ {"starts", "ends"} \subseteq DOMAIN node.attrs)
       => /\ Len(outcome'.calls) = 1
          /\ outcome'.calls[1].prim = "tf.slice"
          /\ C2_Holds(node.attrs, input_dict.X.shape, outcome'.calls[1])]_vars

\* a slice of a rank-2 tensor along axis 1 only, whose end is negative and
\* whose start lies beyond the axis, has been lowered
C2_Witness ==
  /\ node0.op_type = "Slice"
  /\ ncalls = 1
  /\ {"starts", "ends", "axes"} \subseteq DOMAIN node0.attrs
  /\ Len(input_dict.X.shape) = 2
  /\ node0.attrs.axes = <<1>>
  /\ node0.attrs.ends[1] < 0
  /\ node0.attrs.starts[1] > input_dict.X.shape[2]
  /\ Len(outcome.calls) = 1

\* the node is a pooling node whose kernel_shape equals the spatial extent of
\* its input, which has at least one spatial axis, and it has been lowered
KernelCoversInput ==
  /\ node0.op_type \in {"AveragePool", "MaxPool"}
  /\ ncalls >= 1
  /\ Len(input_dict.X.shape) >= 3
  /\ "kernel_shape" \in DOMAIN node0.attrs
  /\ node0.attrs.kernel_shape = From(input_dict.X.shape, 2)

\* C3: when kernel_shape covers the full spatial extent, handle_average_pool
\* and handle_max_pool reduce over all spatial axes with keep_dims (mean / max)
\* and call neither tf.nn.pool nor _compatibility_pool.
C3_GlobalPoolRule ==
  KernelCoversInput =>
    /\ outcome.status = "ok"
    /\ Len(outcome.calls) = 1
    /\ outcome.calls[1].prim =
         (IF node0.op_type = "AveragePool" THEN "tf.reduce_mean"
          ELSE "tf.reduce_max")
    /\ outcome.calls[1].keep_dims
    /\ outcome.outputs[1].shape =
         [k \in 1..Len(input_dict.X.shape) |->
            IF k <= 2 THEN input_dict.X.shape[k] ELSE 1]

\* the last lowering went through _pool: a pooling node with kernel_shape that
\* did not take the global-pool rule
ReachedPool ==
  /\ node0.op_type \in {"AveragePool", "MaxPool"}
  /\ ncalls >= 1
  /\ "kernel_shape" \in DOMAIN node0.attrs
  /\ CallsOf("tf.reduce_mean") = {}

NativePool(mode) ==
  /\ CallsOf("tf.nn.pool") # {}
  /\ \A k \in CallsOf("tf.nn.pool") : outcome.calls[k].padding = mode
  /\ CallsOf("cls._compatibility_pool") = {}

FallbackPool ==
  /\ CallsOf("cls._compatibility_pool") # {}
  /\ CallsOf("tf.nn.pool") = {}

\* pads whose begin and end amounts differ on some axis
AsymmetricPads(attrs) ==
  /\ "pads" \in DOMAIN attrs
  /\ \E i \in 1..(Len(attrs.pads) \div 2) :
       attrs.pads[i] # attrs.pads[i + Len(attrs.pads) \div 2]

\* C4, as stated: in _pool, auto_pad SAME_UPPER / VALID goes to tf.nn.pool with
\* padding SAME / VALID, while auto_pad SAME_LOWER and every node with
\* asymmetric explicit pads goes to _compatibility_pool, never to tf.nn.pool.
C4_AsStated ==
  ReachedPool =>
    LET attrs == node0.attrs
        ap    == attrs_get(attrs, "auto_pad", "")
    IN /\ (ap = "SAME_UPPER" => NativePool("SAME"))
       /\ (ap = "VALID" => NativePool("VALID"))
       /\ (ap = "SAME_LOWER" => FallbackPool)
       /\ (AsymmetricPads(attrs) => FallbackPool)

\* C4, amended: in _pool, auto_pad SAME_UPPER / VALID goes to tf.nn.pool with
\* padding SAME / VALID whatever pads says (the pads are then ignored); every
\* other node -- auto_pad SAME_LOWER, any other auto_pad, or no auto_pad, the
\* one case in which explicit pads are used -- goes to _compatibility_pool,
\* never to tf.nn.pool.
C4_PoolRouting ==
  ReachedPool =>
    LET ap == attrs_get(node0.attrs, "auto_pad", "")
    IN /\ (ap = "SAME_UPPER" => NativePool("SAME"))
       /\ (ap = "VALID" => NativePool("VALID"))
       /\ (ap \notin {"SAME_UPPER", "VALID"} => FallbackPool)

\* a node with auto_pad SAME_UPPER and asymmetric pads went to tf.nn.pool
C4_Witness ==
  /\ ReachedPool
  /\ attrs_get(node0.attrs, "auto_pad", "") = "SAME_UPPER"
  /\ AsymmetricPads(node0.attrs)
  /\ NativePool("SAME")

\* C5: no lowering rule changes its inputs: node.attrs (every list-valued
\* attribute included), node.inputs and input_dict are after the call what
\* they were before it.
C5_InputsUnchanged ==
  /\ node = node0
  /\ input_dict = input_dict0

\* the attributes a rule has no default for
RequiredAttrs(op_type) ==
  CASE op_type \in {"ArgMax", "ArgMin"}             -> {"axis"}
    [] op_type = "Split"                            -> {"axis"}
    [] op_type \in {"AveragePool", "MaxPool"}       -> {"kernel_shape"}
    [] op_type = "Slice"                            -> {"starts", "ends"}
    [] op_type = "Reshape"                          -> {"shape"}
    [] op_type = "Unsqueeze"                        -> {"axes"}
    [] op_type \in {"DepthToSpace", "SpaceToDepth"} -> {"blocksize"}
    [] op_type = "LSTM"                             -> {"hidden_size"}
    [] OTHER                                        -> {}

\* C6: when an attribute the rule requires is absent from node.attrs the call
\* ends in an error and returns no lowered tensor.
C6_MissingAttributeIsFatal ==
  (ncalls >= 1 /\ ~(RequiredAttrs(node0.op_type) \subseteq DOMAIN node0.attrs))
    => /\ outcome.status # "ok"
       /\ outcome.outputs = <<>>

\* an ArgMax / ArgMin node with an axis has been lowered
ArgLowered ==
  /\ node0.op_type \in {"ArgMax", "ArgMin"}
  /\ ncalls >= 1
  /\ "axis" \in DOMAIN node0.attrs

\* C7: handle_arg_max / handle_arg_min with keepdims 1 (or absent) warn once
\* and return one output; with keepdims 0 they return one output and do not
\* warn; the output is the same tf.argmax / tf.argmin over axis either way.
C7_KeepdimsWarningNonFatal ==
  ArgLowered =>
    LET keepdims == IF "keepdims" \in DOMAIN node0.attrs
                      THEN node0.attrs.keepdims ELSE 1
    IN /\ outcome.status = "ok"
       /\ Len(outcome.outputs) = 1
       /\ (keepdims = 1 => Len(outcome.warns) = 1)
       /\ (keepdims = 0 => outcome.warns = <<>>)
       /\ outcome.calls =
            <<[prim |-> IF node0.op_type = "ArgMax" THEN "tf.argmax"
                        ELSE "tf.argmin",
               axis |-> node0.attrs.axis]>>
       /\ Len(outcome.outputs[1].shape) = Len(input_dict.X.shape) - 1

C7_Witness ==
  /\ ArgLowered
  /\ "keepdims" \notin DOMAIN node0.attrs
  /\ Len(outcome.warns) = 1
  /\ outcome.status = "ok"

\* the scan is over, at least one version was imported, and the tables are
\* written
ScanDone == gen_pc = "done" /\ Len(scanned) >= 1

\* the versions at which the scanned backend module has handle_<op>
HandlerVersions(op) == {v \in 1..Len(scanned) : op \in scanned[v].backend}

Highest(S) == CHOOSE v \in S : \A w \in S : w <= v

\* C8, as stated: the table holds, per operator, the highest version with a
\* dedicated backend rule, and version 1 for a trivially mappable operator with
\* no dedicated rule at any version.
C8_AsStated ==
  ScanDone =>
    \A op \in OpNames :
      /\ HandlerVersions(op) # {}
           => backend_opset_dict[op] = <<Highest(HandlerVersions(op))>>
      /\ (HandlerVersions(op) = {} /\ op \in ONNX_OP_TO_TF_OP)
           => backend_opset_dict[op] = <<1>>

\* C8, amended: the table holds, per operator, the list in increasing order of
\* every scanned version that has a dedicated backend rule, preceded by
\* version 1 when the operator is trivially mappable (whether or not a
\* dedicated rule exists at some version); so the last version of a list is
\* the highest version with a dedicated rule when there is one, and the list
\* is [1] for a trivially mappable operator with none.
C8_VersionTable ==
  ScanDone =>
    \A op \in OpNames :
      LET lst == backend_opset_dict[op]
      IN /\ \A k \in 1..(Len(lst) - 1) : lst[k] < lst[k + 1]
         /\ Elems(lst) = HandlerVersions(op)
                         \cup (IF op \in ONNX_OP_TO_TF_OP THEN {1} ELSE {})
         /\ HandlerVersions(op) # {}
              => lst[Len(lst)] = Highest(HandlerVersions(op))
         /\ (HandlerVersions(op) = {} /\ op \in ONNX_OP_TO_TF_OP)
              => lst = <<1>>

\* two versions were scanned; relu, trivially mappable, has a dedicated rule at
\* version 2 only and reshape at both versions
C8_Witness ==
  /\ ScanDone
  /\ Len(scanned) = 2
  /\ HandlerVersions("relu") = {2}
  /\ HandlerVersions("reshape") = {1, 2}
  /\ backend_opset_dict["relu"] = <<1, 2>>

\* a convolution node with a group attribute has been lowered
GroupLowered ==
  /\ node0.op_type \in {"Conv", "ConvTranspose"}
  /\ ncalls >= 1
  /\ "group" \in DOMAIN node0.attrs

\* the axis label a recorded tf.split / tf.concat call works along
AxisLabel(call) ==
  call.lay[((call.axis + Len(call.lay)) % Len(call.lay)) + 1]

\* C9: _conv with group g, with and without CUDA: the weights and the input
\* are each split in g along their channel axis; output channel j of the
\* result is slice i of the input convolved with output channel j of the
\* weights, i being the group j falls in, the groups in the order 1..g; the g
\* results are concatenated once, along the channel axis; the bias, when
\* present, is added exactly once, after the concatenation.
C9_GroupedConv ==
  GroupLowered =>
    LET g     == node0.attrs.group
        calls == outcome.calls
    IN /\ \A b \in CallsOf("tf.nn.bias_add") :
            \E c \in CallsOf("tf.concat") : c < b
       /\ outcome.status = "ok" =>
            LET out == outcome.outputs[1]
                M   == Len(out.chan)
                X   == input_dict.X
                cg  == Len(X.chan) \div g
            IN /\ Cardinality(CallsOf("tf.split")) = 2
               /\ \A k \in CallsOf("tf.split") :
                    /\ calls[k].num = g
                    /\ AxisLabel(calls[k]) \in {"M", "C"}
               /\ {AxisLabel(calls[k]) : k \in CallsOf("tf.split")} = {"M", "C"}
               /\ Cardinality(CallsOf("tf.nn.convolution")) = g
               /\ Cardinality(CallsOf("tf.concat")) = 1
               /\ \A c \in CallsOf("tf.concat") :
                    /\ calls[c].num = g
                    /\ AxisLabel(calls[c]) = "C"
                    /\ \A k \in CallsOf("tf.nn.convolution") : k < c
               /\ Cardinality(CallsOf("tf.nn.bias_add")) =
                    (IF Len(node0.inputs) = 3 THEN 1 ELSE 0)
               /\ M % g = 0
               /\ \A j \in 1..M :
                    LET i == (j - 1) \div (M \div g) + 1
                    IN /\ out.chan[j].w = j
                       /\ out.chan[j].x = SubSeq(X.chan, (i - 1) * cg + 1, i * cg)
                       /\ out.chan[j].bias =
                            (IF Len(node0.inputs) = 3 THEN 1 ELSE 0)

\* a convolution in two groups of two output channels each, with a bias and
\* without CUDA, has been lowered
C9_Witness ==
  /\ GroupLowered
  /\ node0.attrs.group = 2
  /\ Len(node0.inputs) = 3
  /\ ~support_cuda
  /\ outcome.status = "ok"
  /\ Len(outcome.outputs[1].chan) = 4
  /\ Len(input_dict.X.chan) = 4

\* the native, layout-sensitive primitives
NativePrims ==
  {"tf.nn.pool", "tf.nn.convolution", "tf.nn.bias_add", "tf.depth_to_space",
   "tf.space_to_depth"}

NativeCalls == UNION {CallsOf(prim) : prim \in NativePrims}

\* the transposes of data (the transpose of the convolution weights is not a
\* layout conversion)
DataTransposes ==
  {k \in CallsOf("tf.transpose") : "N" \in Elems(outcome.calls[k].lay)}

ChannelFirst(lay) == lay[1] = "N" /\ lay[2] = "C"
ChannelLast(lay) == lay[1] = "N" /\ lay[Len(lay)] = "C"

\* the layout a recorded tf.transpose call produces
TransposedLay(call) == [k \in 1..Len(call.perm) |-> call.lay[call.perm[k] + 1]]

\* C10: without CUDA every native primitive call (bias_add included) receives
\* channel-last data and is told so, a channel-first to channel-last transpose
\* precedes it and, when the rule returns, a channel-last to channel-first
\* transpose follows it, and the tensor the rule returns is channel-first;
\* with CUDA no data is transposed and the primitives work channel-first.
C10_LayoutWrapping ==
  (ncalls >= 1 /\ NativeCalls # {}) =>
    LET calls == outcome.calls
    IN IF support_cuda
         THEN /\ DataTransposes = {}
              /\ \A k \in NativeCalls :
                   ChannelFirst(calls[k].lay) /\ calls[k].fmt = calls[k].lay
              /\ outcome.status = "ok" => ChannelFirst(outcome.outputs[1].lay)
         ELSE /\ \A k \in NativeCalls :
                   /\ ChannelLast(calls[k].lay)
                   /\ calls[k].fmt = calls[k].lay
                   /\ \E j \in DataTransposes :
                        /\ j < k
                        /\ ChannelFirst(calls[j].lay)
                        /\ ChannelLast(TransposedLay(calls[j]))
                   /\ outcome.status = "ok" =>
                        \E j \in DataTransposes :
                          /\ j > k
                          /\ ChannelLast(calls[j].lay)
                          /\ ChannelFirst(TransposedLay(calls[j]))
              /\ outcome.status = "ok" =>
                   /\ ChannelFirst(outcome.outputs[1].lay)
                   /\ outcome.outputs[1].lay = input_dict.X.lay

\* a convolution with a bias and without group has been lowered without CUDA
C10_Witness ==
  /\ node0.op_type = "Conv"
  /\ ncalls >= 1
  /\ "group" \notin DOMAIN node0.attrs
  /\ Len(node0.inputs) = 3
  /\ ~support_cuda
  /\ outcome.status = "ok"
  /\ CallsOf("tf.nn.bias_add") # {}
  /\ Cardinality(DataTransposes) = 4

\* the node is the AveragePool with kernel_shape [2,2] and strides [2,2] and no
\* padding attribute, on a 1x3x4x4 tensor, and it has been lowered
AveragePoolLowered ==
  /\ node0.op_type = "AveragePool"
  /\ ncalls >= 1
  /\ node0.attrs = [kernel_shape |-> <<2, 2>>, strides |-> <<2, 2>>]
  /\ input_dict.X.shape = <<1, 3, 4, 4>>

\* C12: handle_average_pool on a 1x3x4x4 tensor with kernel_shape [2,2],
\* strides [2,2] and no padding attribute returns a 1x3x2x2 tensor whose
\* element [0,0,0,0] is the mean of input[0,0,0..1,0..1], and whose every
\* element [n,c,i,j] is the mean of the 2x2 window of input[n,c] that starts
\* at (2i, 2j).
C12_AveragePoolScenario ==
  AveragePoolLowered =>
    /\ outcome.status = "ok"
    /\ Len(outcome.outputs) = 1
    /\ outcome.outputs[1].shape = <<1, 3, 2, 2>>
    /\ LET run == outcome.outputs[1].eval
       IN /\ run.status = "ok"
          /\ DOMAIN run.y = {<<0, c, i, j>> : c \in 0..2, i \in 0..1, j \in 0..1}
          /\ run.y[<<0, 0, 0, 0>>] =
               [f |-> "np.average",
                of |-> {<<0, 0, 0, 0>>, <<0, 0, 0, 1>>, <<0, 0, 1, 0>>,
                        <<0, 0, 1, 1>>}]
          /\ \A c \in 0..2, i \in 0..1, j \in 0..1 :
               run.y[<<0, c, i, j>>] =
                 [f |-> "np.average",
                  of |-> {<<0, c, 2 * i + a, 2 * j + b>> : a, b \in 0..1}]

\* the scenario has been lowered without CUDA, through the portable fallback
C12_Witness ==
  /\ AveragePoolLowered
  /\ ~support_cuda
  /\ outcome.status = "ok"
  /\ CallsOf("tf.py_func(py_pool)") # {}

\* a pooling node has been lowered and _compatibility_pool was entered
FallbackEntered ==
  /\ node0.op_type \in {"AveragePool", "MaxPool"}
  /\ ncalls >= 1
  /\ CallsOf("cls._compatibility_pool") # {}

\* C14: _compatibility_pool is entered only with auto_pad "SAME_LOWER" or ""
\* (absent), so out_shape and pad_shape are defined when the pooling
\* computation is built.
C14_FallbackAutoPad ==
  FallbackEntered =>
    /\ attrs_get(node0.attrs, "auto_pad", "") \in {"SAME_LOWER", ""}
    /\ outcome.status # "UnboundLocalError"

\* the fallback built its tf.py_func node for a pooling node with this auto_pad
FallbackBuilt(auto_pads) ==
  /\ FallbackEntered
  /\ attrs_get(node0.attrs, "auto_pad", "") \in auto_pads
  /\ CallsOf("tf.py_func(py_pool)") # {}

\* C16: for auto_pad "SAME_LOWER" the per-side pads _compatibility_pool
\* computes are non-negative on every axis, the begin pad is the end pad or
\* one more, and begin + end is (out - 1) * stride + kernel - input with
\* out = ceil(input / stride).
C16_SameLowerPads ==
  FallbackBuilt({"SAME_LOWER"}) =>
    \A c \in CallsOf("tf.py_func(py_pool)") :
      LET call == outcome.calls[c]
          sp   == Len(input_dict.X.shape) - 2
      IN \A i \in 1..sp :
           LET input  == input_dict.X.shape[i + 2]
               stride == call.strides_shape[i]
               kernel == call.kernel_shape[i]
               out    == (input + stride - 1) \div stride
               begin  == call.pads[i]
               end    == call.pads[i + sp]
           IN /\ begin >= 0
              /\ end >= 0
              /\ begin >= end
              /\ begin - end <= 1
              /\ begin + end = (out - 1) * stride + kernel - input

\* C17: in the portable fallback, for auto_pad "SAME_LOWER" or "" and
\* non-negative pads, py_pool iterates on each spatial axis as many positions
\* as out_shape declares, every window it gathers lies inside the padded
\* tensor, and so every element of the result is written.
C17_PyPoolIterations ==
  (FallbackBuilt({"SAME_LOWER", ""}) /\ outcome.status = "ok") =>
    \A c \in CallsOf("tf.py_func(py_pool)") :
      LET call == outcome.calls[c]
          run  == outcome.outputs[1].eval
      IN /\ \A i \in 1..Len(call.out_shape) : run.counts[i] = call.out_shape[i]
         /\ run.at \notin {"np.pad", "np.zeros", "window[i]", "y[shape]"}
         /\ \A idx \in DOMAIN run.y : run.y[idx].f # "np.zeros"

\* the activations f, g, h of one direction, from position k of the list: are
\* the gate activations f, g the (sigmoid, tanh) TensorFlow's cell has, and is
\* h one the backend can map
GatesMatch(a, k) == a[k] = "Sigmoid" /\ a[k + 1] = "Tanh"
CanMap(a, k) == a[k + 2] \in {"Relu", "Sigmoid", "Tanh"}

\* an LSTM node has been lowered whose activations attribute names three
\* activations per direction, the third one mappable, and whose gate
\* activations do not all match
LstmGatesDiffer ==
  /\ node0.op_type = "LSTM"
  /\ ncalls >= 1
  /\ {"hidden_size", "activations"} \subseteq DOMAIN node0.attrs
  /\ LET a   == node0.attrs.activations
         dir == attrs_get(node0.attrs, "direction", "forward")
     IN IF dir = "bidirectional"
          THEN /\ Len(a) = 6
               /\ CanMap(a, 1) /\ CanMap(a, 4)
               /\ ~(GatesMatch(a, 1) /\ GatesMatch(a, 4))
          ELSE /\ Len(a) = 3
               /\ CanMap(a, 1)
               /\ ~GatesMatch(a, 1)

\* C13: handle_l_s_t_m does not fail on gate activations other than
\* (sigmoid, tanh): for direction forward, reverse and bidirectional it warns
\* and returns its three outputs in the order sequence output, final hidden
\* state, final cell state.
C13_LstmActivationsNonFatal ==
  LstmGatesDiffer =>
    /\ outcome.status = "ok"
    /\ Len(outcome.warns) >= 1
    /\ Len(outcome.outputs) = 3
    /\ [k \in 1..3 |-> outcome.outputs[k].role] = <<"output", "h", "c">>

\* a Softmax / LogSoftmax node has been lowered on the 2D-collapse path (its
\* axis is absent or is not the last axis as written) and the collapsed view
\* has two or more rows
CollapsedSoftmax ==
  /\ node0.op_type \in {"Softmax", "LogSoftmax"}
  /\ ncalls >= 1
  /\ CallsOf("tf.reduce_max") # {}
  /\ outcome.calls[1].prim = "tf.reshape"
  /\ outcome.calls[1].shape[1] >= 2

\* the maximum of a row
RowMax(row) == CHOOSE m \in Elems(row) : \A v \in Elems(row) : v <= m

\* C11: on the 2D-collapse path of handle_softmax and handle_log_softmax the
\* value subtracted from an element before exponentiating is the maximum of
\* the element's own row of the collapsed 2D view.
C11_PerRowMaximum ==
  CollapsedSoftmax =>
    LET X    == input_dict.X
        axis == IF "axis" \in DOMAIN node0.attrs
                  THEN (node0.attrs.axis + Len(X.shape)) % Len(X.shape)
                  ELSE 1
        cols == Prod(SubSeq(X.shape, axis + 1, Len(X.shape)))
        rows == Prod(X.shape) \div cols
        view == [r \in 1..rows |-> [c \in 1..cols |-> X.vals[(r - 1) * cols + c]]]
    IN \A k \in CallsOf(IF node0.op_type = "Softmax" THEN "tf.nn.softmax"
                        ELSE "tf.nn.log_softmax") :
         \A r \in 1..rows : \A c \in 1..cols :
           outcome.calls[k].logits[r][c] = view[r][c] - RowMax(view[r])

\* the versions from 2 on at which the scanned backend module has handle_<op>
LaterHandlerVersions(op) ==
  {v \in 2..Len(scanned) : op \in scanned[v].backend}

Lists18(table) == {table[k] : k \in DOMAIN table}
StrictlyIncreasing(lst) == \A k \in 1..(Len(lst) - 1) : lst[k] < lst[k + 1]
NonDecreasing(lst) == \A k \in 1..(Len(lst) - 1) : lst[k] <= lst[k + 1]

\* the scan has stopped: an import failed at `version`
Stopped == gen_pc \in {"write", "done"}

\* the k-th module pair imported is that of version k, and `version` is the
\* next version to import
InOrder ==
  gen_pc \in {"import", "scan", "write", "done"} =>
    version = Len(scanned) + (IF gen_pc = "scan" THEN 0 ELSE 1)

\* every version recorded in a table has been imported
RecordedBelow(table) ==
  \A lst \in Lists18(table) : \A v \in Elems(lst) : 1 <= v /\ v <= Len(scanned)

\* after the first failed import nothing more is imported or recorded
StaysStopped ==
  Stopped =>
    /\ Stopped'
    /\ UNCHANGED <<version, scanned, backend_opset_dict, frontend_opset_dict,
                   frontend_tf_opset_dict>>

\* C18, as stated: the scan visits versions 1, 2, 3, ... in increasing order
\* and ends at the first version whose backend or frontend module is
\* unavailable; every version in any of the three tables is smaller than that
\* version; and every recorded version list is strictly increasing.
C18_AsStated ==
  /\ [](InOrder /\ RecordedBelow(backend_opset_dict)
        /\ RecordedBelow(frontend_opset_dict)
        /\ RecordedBelow(frontend_tf_opset_dict))
  /\ [](\A lst \in Lists18(backend_opset_dict) \cup Lists18(frontend_opset_dict)
                   \cup Lists18(frontend_tf_opset_dict) : StrictlyIncreasing(lst))
  /\ [][StaysStopped /\ version' \in {version, version + 1}]_vars
  /\ <>(gen_pc = "done")

\* C18, amended: as stated for the order of the scan, its end and the bound on
\* the recorded versions; the lists of backend_opset_dict and
\* frontend_opset_dict, which are keyed by operator, are strictly increasing,
\* while a list of frontend_tf_opset_dict, keyed by TensorFlow op name, is
\* non-decreasing only: it repeats a version when two schemas are exported
\* from the same TensorFlow op at that version.
C18_VersionScan ==
  /\ [](InOrder /\ RecordedBelow(backend_opset_dict)
        /\ RecordedBelow(frontend_opset_dict)
        /\ RecordedBelow(frontend_tf_opset_dict))
  /\ [](/\ \A lst \in Lists18(backend_opset_dict) \cup Lists18(frontend_opset_dict) :
             StrictlyIncreasing(lst)
        /\ \A lst \in Lists18(frontend_tf_opset_dict) : NonDecreasing(lst))
  /\ [][StaysStopped /\ version' \in {version, version + 1}]_vars
  /\ <>(gen_pc = "done")

\* the scan imported versions 1 and 2, stopped at version 3, and the tables
\* are written; relu was exported twice at version 1
C18_Witness ==
  /\ gen_pc = "done"
  /\ version = 3
  /\ Len(scanned) = 2
  /\ "relu" \in DOMAIN frontend_tf_opset_dict
  /\ Len(frontend_tf_opset_dict["relu"]) >= 2
  /\ SubSeq(frontend_tf_opset_dict["relu"], 1, 2) = <<1, 1>>


====
